---------------------------- MODULE Spec2Model ----------------------------
(***************************************************************************)
(* A model of the sglang_mistral command-line client: the message builder  *)
(* (message.py), the request client (client.py) and the values they        *)
(* exchange with the HTTP library and the process environment.             *)
(*                                                                         *)
(* Python values are represented as follows.                               *)
(*   str            a TLA+ string                                          *)
(*   int            an integer                                             *)
(*   Optional[T]    None is <<>>, a value v is <<v>>                       *)
(*   list           a sequence                                             *)
(*   dict           a function from its keys to its values                 *)
(*   str-or-list    [str |-> s] or [list |-> l]: the value together with   *)
(*                  its Python type, where the code returns either         *)
(***************************************************************************)
EXTENDS Integers, Sequences, FiniteSets, TLC

VARIABLES
    env,      \* os.environ: SGLANG_HOST, SGLANG_PORT, SGLANG_MODEL, each Optional
    client,   \* None, or Some(the SGLangMistralClient object's fields)
    http,     \* the HTTP calls issued by the latest operation, in order
    nHttp,    \* number of HTTP calls issued so far
    nCalls,   \* number of operations called so far
    stderr,   \* lines written to sys.stderr, in order
    last,     \* the latest call: its name, arguments and outcome
    history,  \* the calls made on the client so far, in order, where recorded
    threads,  \* per thread, the call it is in and the values of its locals
    main,     \* the frame of cli.main: its position and its locals
    stdout,   \* lines written to sys.stdout, in order
    heap      \* the list objects made so far, each at its identity

vars == <<env, client, http, nHttp, nCalls, stderr, last, history, threads,
          main, stdout, heap>>

\* The variables of the command line and of the threads, where neither runs.
NoMain == [pc |-> "none"]
others == <<history, threads, main, stdout, heap>>
OthersIdle ==
    /\ heap = <<>>
    /\ history = <<>>
    /\ threads = <<>>
    /\ main = NoMain
    /\ stdout = <<>>

---------------------------------------------------------------------------
(* Bounds of the model.                                                    *)

MaxUrls == 3      \* longest image URL list passed to the message builder
MaxCount == 12    \* largest magnitude of an image count
MaxCalls == 2     \* operations called on one client
MaxGroups == 2    \* occurrences of --image-url on one command line
MaxGroupLen == 2  \* values given after one occurrence of --image-url
MaxLists == 1     \* URL lists the caller of create_message holds
MaxHeapCalls == 3 \* calls of create_message on these lists
MaxDelay == 7     \* longest time, in seconds, a server takes to respond
MaxWait == 9      \* seconds after which the clock of a waiting call stops

---------------------------------------------------------------------------
(* Python values.                                                          *)

None == <<>>
Some(v) == <<v>>
PyStr(s) == [str |-> s]
PyList(l) == [list |-> l]

\* An argument left out of a call, and an argument passed.
Omitted == [omitted |-> TRUE]
Arg(v) == [value |-> v]

\* Binding of a parameter that has a default value.
Bind(arg, default) == IF arg = Omitted THEN default ELSE arg.value

\* Truth value of an Optional[List]: None and [] are false.
TruthyList(o) == o # None /\ o[1] # <<>>
\* Truth value of an Optional[str]: None and "" are false.
TruthyStr(o) == o # None /\ o[1] # ""
\* Truth value of an Optional[int]: None and 0 are false.
TruthyInt(o) == o # None /\ o[1] # 0

Digit(d) ==
    CASE d = 0 -> "0" [] d = 1 -> "1" [] d = 2 -> "2" [] d = 3 -> "3"
      [] d = 4 -> "4" [] d = 5 -> "5" [] d = 6 -> "6" [] d = 7 -> "7"
      [] d = 8 -> "8" [] d = 9 -> "9"

\* An int formatted by an f-string: decimal digits, "-" before a negative.
RECURSIVE FormatNat(_)
FormatNat(n) ==
    IF n < 10 THEN Digit(n) ELSE FormatNat(n \div 10) \o Digit(n % 10)

FormatInt(n) == IF n < 0 THEN "-" \o FormatNat(-n) ELSE FormatNat(n)

---------------------------------------------------------------------------
(* message.py                                                              *)

ImageBlock(url) == [type |-> "image_url", image_url |-> [url |-> url]]
TextBlock(text) == [type |-> "text", text |-> text]

\* for url in image_urls: content.append({...})
RECURSIVE AppendImages(_, _)
AppendImages(content, urls) ==
    IF urls = <<>> THEN content
    ELSE AppendImages(Append(content, ImageBlock(Head(urls))), Tail(urls))

\* Variants of create_message with a plausible slip each.
create_message_NoneOnly(text, image_urls_arg) ==
    LET image_urls == Bind(image_urls_arg, None)
        content0 == IF TruthyList(image_urls)
                    THEN AppendImages(<<>>, image_urls[1])
                    ELSE <<>>
        content == Append(content0, TextBlock(text))
    IN  IF image_urls = None
        THEN << [role |-> "user", content |-> PyStr(text)] >>
        ELSE << [role |-> "user", content |-> PyList(content)] >>

create_message_TextFirst(text, image_urls_arg) ==
    LET image_urls == Bind(image_urls_arg, None)
        content0 == <<TextBlock(text)>>
        content == IF TruthyList(image_urls)
                   THEN AppendImages(content0, image_urls[1])
                   ELSE content0
    IN  IF ~TruthyList(image_urls)
        THEN << [role |-> "user", content |-> PyStr(text)] >>
        ELSE << [role |-> "user", content |-> PyList(content)] >>

create_message_SkipEmpty(text, image_urls_arg) ==
    LET image_urls == Bind(image_urls_arg, None)
        content0 == IF TruthyList(image_urls)
                    THEN AppendImages(<<>>,
                             SelectSeq(image_urls[1], LAMBDA u : u # ""))
                    ELSE <<>>
        content == Append(content0, TextBlock(text))
    IN  IF ~TruthyList(image_urls)
        THEN << [role |-> "user", content |-> PyStr(text)] >>
        ELSE << [role |-> "user", content |-> PyList(content)] >>

create_message(text, image_urls_arg) ==
    LET image_urls == Bind(image_urls_arg, None)
        content0 == IF TruthyList(image_urls)
                    THEN AppendImages(<<>>, image_urls[1])
                    ELSE <<>>
        content == Append(content0, TextBlock(text))
    IN  IF ~TruthyList(image_urls)
        THEN << [role |-> "user", content |-> PyStr(text)] >>
        ELSE << [role |-> "user", content |-> PyList(content)] >>

\* Variant of determine_default_text that tests image_count <= 1.
determine_default_text_AtMostOne(image_count) ==
    IF image_count <= 1 THEN "What's in this image?"
    ELSE "I have " \o FormatInt(image_count)
             \o " images. Please describe each image."

determine_default_text(image_count) ==
    IF image_count = 0 THEN "What's in this image?"
    ELSE IF image_count = 1 THEN "What's in this image?"
    ELSE "I have " \o FormatInt(image_count)
             \o " images. Please describe each image."

---------------------------------------------------------------------------
(* Inputs of the message builder.                                          *)

Texts == {"", "Hello", "Describe"}
Urls == {"", "https://a/1.jpg", "https://a/2.jpg"}

UrlLists == UNION {[1..n -> Urls] : n \in 0..MaxUrls}
ImageArgs == {Omitted, Arg(None)} \cup {Arg(Some(l)) : l \in UrlLists}
Counts == (0 - MaxCount)..MaxCount

NoEnv == [SGLANG_HOST |-> None, SGLANG_PORT |-> None, SGLANG_MODEL |-> None]

(* The message builder called on its own: nothing but `last' changes.      *)
InitMessage ==
    /\ env = NoEnv
    /\ client = None
    /\ http = <<>>
    /\ nHttp = 0
    /\ nCalls = 0
    /\ stderr = <<>>
    /\ last = [op |-> "none"]
    /\ OthersIdle

CallCreateMessage ==
    \E text \in Texts, image_urls \in ImageArgs :
        /\ last' = [op |-> "create_message", text |-> text,
                    image_urls |-> image_urls,
                    result |-> create_message(text, image_urls)]
        /\ UNCHANGED <<env, client, http, nHttp, nCalls, stderr, others>>

CallDetermineDefaultText ==
    \E image_count \in Counts :
        /\ last' = [op |-> "determine_default_text",
                    image_count |-> image_count,
                    result |-> determine_default_text(image_count)]
        /\ UNCHANGED <<env, client, http, nHttp, nCalls, stderr, others>>

NextMessage == CallCreateMessage \/ CallDetermineDefaultText

SpecMessage == InitMessage /\ [][NextMessage]_vars

---------------------------------------------------------------------------
(* cli.py: the functions main uses to prepare the request                  *)

FallbackImageUrl ==
    "https://github.com/alex-crouch/resources/blob/main/zsh-diskfree/images/servingsuggestion.gif?raw=true"

\* Variant of determine_text_and_images that tests the text for truth.
determine_text_and_images_IfText(text_arg, image_urls_arg) ==
    IF TruthyStr(text_arg) THEN <<text_arg[1], image_urls_arg>>
    ELSE IF TruthyList(image_urls_arg)
    THEN <<determine_default_text(Len(image_urls_arg[1])), image_urls_arg>>
    ELSE <<determine_default_text(1), Some(<<FallbackImageUrl>>)>>

\* Variant of determine_text_and_images that always asks about one image.
determine_text_and_images_OneImage(text_arg, image_urls_arg) ==
    IF text_arg # None THEN <<text_arg[1], image_urls_arg>>
    ELSE IF TruthyList(image_urls_arg)
    THEN <<determine_default_text(1), image_urls_arg>>
    ELSE <<determine_default_text(1), Some(<<FallbackImageUrl>>)>>

\* Variant of determine_text_and_images without the fallback image.
determine_text_and_images_NoFallback(text_arg, image_urls_arg) ==
    IF text_arg # None THEN <<text_arg[1], image_urls_arg>>
    ELSE IF TruthyList(image_urls_arg)
    THEN <<determine_default_text(Len(image_urls_arg[1])), image_urls_arg>>
    ELSE <<determine_default_text(1), image_urls_arg>>

\* The tuple (text_message, image_urls).
determine_text_and_images(text_arg, image_urls_arg) ==
    IF text_arg # None THEN <<text_arg[1], image_urls_arg>>
    ELSE IF TruthyList(image_urls_arg)
    THEN <<determine_default_text(Len(image_urls_arg[1])), image_urls_arg>>
    ELSE <<determine_default_text(1), Some(<<FallbackImageUrl>>)>>

\* for url_group in args.image_url: flattened_image_urls.extend(url_group)
RECURSIVE ExtendAll(_, _)
ExtendAll(flat, groups) ==
    IF groups = <<>> THEN flat
    ELSE ExtendAll(flat \o Head(groups), Tail(groups))

\* Variant of flattened_image_urls that keeps the last group only.
flattened_image_urls_LastGroup(image_url) ==
    IF TruthyList(image_url)
    THEN Some(image_url[1][Len(image_url[1])])
    ELSE None

\* Variant of flattened_image_urls that is None when no value was given.
flattened_image_urls_NoneWhenEmpty(image_url) ==
    IF TruthyList(image_url) /\ ExtendAll(<<>>, image_url[1]) # <<>>
    THEN Some(ExtendAll(<<>>, image_url[1]))
    ELSE None

\* main's flattened_image_urls, from args.image_url: None when the flag was
\* not given, else the list of the groups of values, one per occurrence.
flattened_image_urls(image_url) ==
    IF TruthyList(image_url) THEN Some(ExtendAll(<<>>, image_url[1])) ELSE None

(* Inputs of these functions.                                              *)
TextArgs == {None} \cup {Some(t) : t \in Texts}
ImageListArgs == {None} \cup {Some(l) : l \in UrlLists}
UrlGroups == UNION {[1..n -> Urls] : n \in 0..MaxGroupLen}
ImageUrlArgs ==
    {None} \cup {Some(g) : g \in UNION {[1..n -> UrlGroups] : n \in 1..MaxGroups}}

CallDetermineTextAndImages ==
    \E text_arg \in TextArgs, image_urls_arg \in ImageListArgs :
        /\ last' = [op |-> "determine_text_and_images", text_arg |-> text_arg,
                    image_urls_arg |-> image_urls_arg,
                    result |-> determine_text_and_images(text_arg, image_urls_arg)]
        /\ UNCHANGED <<env, client, http, nHttp, nCalls, stderr, others>>

CallFlatten ==
    \E image_url \in ImageUrlArgs :
        /\ last' = [op |-> "flattened_image_urls", image_url |-> image_url,
                    result |-> flattened_image_urls(image_url)]
        /\ UNCHANGED <<env, client, http, nHttp, nCalls, stderr, others>>

NextCli == CallDetermineTextAndImages \/ CallFlatten

SpecCli == InitMessage /\ [][NextCli]_vars

---------------------------------------------------------------------------
(* client.py: construction                                                 *)

DefaultHost == "localhost"
DefaultPort == <<"3", "0", "0", "0", "0">>
DefaultModel == "OPEA/Mistral-Small-3.1-24B-Instruct-2503-int4-AutoRound-awq-sym"

\* os.getenv(name, default): the value when the variable is set, even to the
\* empty string, and the default otherwise.
getenv(e, name, default) == IF e[name] # None THEN e[name][1] ELSE default

\* The value of SGLANG_PORT is kept as its sequence of characters, so that
\* int() has something to parse.
IsSpace(c) == c \in {" ", "\t", "\n"}
DigitValue(c) ==
    CASE c = "0" -> 0 [] c = "1" -> 1 [] c = "2" -> 2 [] c = "3" -> 3
      [] c = "4" -> 4 [] c = "5" -> 5 [] c = "6" -> 6 [] c = "7" -> 7
      [] c = "8" -> 8 [] c = "9" -> 9 [] OTHER -> 0 - 1

RECURSIVE StripLeft(_)
StripLeft(cs) ==
    IF cs # <<>> /\ IsSpace(Head(cs)) THEN StripLeft(Tail(cs)) ELSE cs

RECURSIVE StripRight(_)
StripRight(cs) ==
    IF cs # <<>> /\ IsSpace(cs[Len(cs)])
    THEN StripRight(SubSeq(cs, 1, Len(cs) - 1)) ELSE cs

RECURSIVE DigitsValue(_, _)
DigitsValue(cs, acc) ==
    IF cs = <<>> THEN acc
    ELSE DigitsValue(Tail(cs), 10 * acc + DigitValue(Head(cs)))

\* int(s) for a str: surrounding whitespace is dropped, one sign is allowed,
\* the rest must be decimal digits; anything else raises ValueError.
int(cs) ==
    LET t == StripRight(StripLeft(cs))
        signed == t # <<>> /\ Head(t) \in {"+", "-"}
        digits == IF signed THEN Tail(t) ELSE t
        valid == digits # <<>> /\ \A i \in 1..Len(digits) : DigitValue(digits[i]) >= 0
    IN  IF ~valid THEN [raised |-> Some([type |-> "ValueError",
                                         msg |-> "invalid literal for int()"])]
        ELSE [raised |-> None,
              value |-> IF signed /\ Head(t) = "-"
                        THEN 0 - DigitsValue(digits, 0)
                        ELSE DigitsValue(digits, 0)]

\* Variant of __init__ that tests the arguments against None, not for truth.
init_IsNotNone(host_arg, port_arg, model_arg, e) ==
    LET host == Bind(host_arg, None)
        port == Bind(port_arg, None)
        model == Bind(model_arg, None)
        self_host == IF host # None THEN host[1]
                     ELSE getenv(e, "SGLANG_HOST", DefaultHost)
        env_port == int(getenv(e, "SGLANG_PORT", DefaultPort))
        self_model == IF model # None THEN model[1] ELSE DefaultModel
    IN  IF port = None /\ env_port.raised # None
        THEN [raised |-> env_port.raised]
        ELSE LET self_port == IF port # None THEN port[1] ELSE env_port.value
             IN  [raised |-> None,
                  self |-> [host |-> self_host, port |-> self_port,
                            model |-> self_model,
                            base_url |-> "http://" \o self_host \o ":"
                                             \o FormatInt(self_port)]]

\* Variant of __init__ that takes 30000 when SGLANG_PORT is no integer.
init_PortFallback(host_arg, port_arg, model_arg, e) ==
    LET host == Bind(host_arg, None)
        port == Bind(port_arg, None)
        model == Bind(model_arg, None)
        self_host == IF TruthyStr(host) THEN host[1]
                     ELSE getenv(e, "SGLANG_HOST", DefaultHost)
        env_port == int(getenv(e, "SGLANG_PORT", DefaultPort))
        self_model == IF TruthyStr(model) THEN model[1] ELSE DefaultModel
        self_port == IF TruthyInt(port) THEN port[1]
                     ELSE IF env_port.raised # None THEN 30000
                     ELSE env_port.value
    IN  [raised |-> None,
         self |-> [host |-> self_host, port |-> self_port, model |-> self_model,
                   base_url |-> "http://" \o self_host \o ":"
                                    \o FormatInt(self_port)]]

\* Variant of __init__ that reads the model from SGLANG_MODEL.
init_EnvModel(host_arg, port_arg, model_arg, e) ==
    LET host == Bind(host_arg, None)
        port == Bind(port_arg, None)
        model == Bind(model_arg, None)
        self_host == IF TruthyStr(host) THEN host[1]
                     ELSE getenv(e, "SGLANG_HOST", DefaultHost)
        env_port == int(getenv(e, "SGLANG_PORT", DefaultPort))
        self_model == IF TruthyStr(model) THEN model[1]
                      ELSE getenv(e, "SGLANG_MODEL", DefaultModel)
    IN  IF ~TruthyInt(port) /\ env_port.raised # None
        THEN [raised |-> env_port.raised]
        ELSE LET self_port == IF TruthyInt(port) THEN port[1] ELSE env_port.value
             IN  [raised |-> None,
                  self |-> [host |-> self_host, port |-> self_port,
                            model |-> self_model,
                            base_url |-> "http://" \o self_host \o ":"
                                             \o FormatInt(self_port)]]

\* SGLangMistralClient.__init__: the fields of the new object, or the
\* exception that int() raised. `x or y' evaluates y only when x is false.
__init__(host_arg, port_arg, model_arg, e) ==
    LET host == Bind(host_arg, None)
        port == Bind(port_arg, None)
        model == Bind(model_arg, None)
        self_host == IF TruthyStr(host) THEN host[1]
                     ELSE getenv(e, "SGLANG_HOST", DefaultHost)
        env_port == int(getenv(e, "SGLANG_PORT", DefaultPort))
        self_model == IF TruthyStr(model) THEN model[1] ELSE DefaultModel
    IN  IF ~TruthyInt(port) /\ env_port.raised # None
        THEN [raised |-> env_port.raised]
        ELSE LET self_port == IF TruthyInt(port) THEN port[1] ELSE env_port.value
             IN  [raised |-> None,
                  self |-> [host |-> self_host, port |-> self_port,
                            model |-> self_model,
                            base_url |-> "http://" \o self_host \o ":"
                                             \o FormatInt(self_port)]]

(* Environments and constructor arguments.                                 *)
EnvHosts == {None, Some("env-host"), Some("")}
EnvPorts == {None, Some(<<"8", "0", "8", "0">>), Some(<<" ", "8", "0", "\n">>),
             Some(<<"0">>), Some(<<"a", "b", "c">>), Some(<<>>)}
EnvModels == {None, Some("env-model")}
Envs == [SGLANG_HOST : EnvHosts, SGLANG_PORT : EnvPorts, SGLANG_MODEL : EnvModels]

HostArgs == {Omitted, Arg(None), Arg(Some("")), Arg(Some("custom-host"))}
PortArgs == {Omitted, Arg(None), Arg(Some(0)), Arg(Some(9999))}
ModelArgs == {Omitted, Arg(None), Arg(Some("")), Arg(Some("custom-model"))}

(* Construction of one client in some environment.                         *)
InitEnv ==
    /\ env \in Envs
    /\ client = None
    /\ http = <<>>
    /\ nHttp = 0
    /\ nCalls = 0
    /\ stderr = <<>>
    /\ last = [op |-> "none"]
    /\ OthersIdle

Construct ==
    /\ last.op = "none"
    /\ \E host \in HostArgs, port \in PortArgs, model \in ModelArgs :
           LET r == __init__(host, port, model, env)
           IN  /\ client' = IF r.raised = None THEN Some(r.self) ELSE None
               /\ last' = [op |-> "__init__", host |-> host, port |-> port,
                           model |-> model, raised |-> r.raised]
    /\ UNCHANGED <<env, http, nHttp, nCalls, stderr, others>>

NextInit == Construct

SpecInit == InitEnv /\ [][NextInit]_vars

---------------------------------------------------------------------------
(* The HTTP library as the client sees it.                                 *)

\* What requests.post or requests.get comes back with: an exception of the
\* transport, or a response with a status and a body text.
TransportError(type, msg) == [exc |-> [type |-> type, msg |-> msg]]
Response(status, text) == [status_code |-> status, text |-> text]
IsResponse(outcome) == "status_code" \in DOMAIN outcome

\* Ctrl-C while the call waits: KeyboardInterrupt, which is no
\* RequestException (and no Exception).
Interrupted == [exc |-> [type |-> "KeyboardInterrupt", msg |-> ""]]

\* Subclasses of requests.exceptions.RequestException.
RequestExceptions ==
    {"RequestException", "ConnectionError", "Timeout", "HTTPError", "JSONDecodeError"}
IsRequestException(exc) == exc.type \in RequestExceptions

\* response.raise_for_status(): HTTPError for a 4xx or 5xx status, nothing
\* for any other status.
raise_for_status(response, url) ==
    IF 400 <= response.status_code /\ response.status_code < 500
    THEN Some([type |-> "HTTPError",
               msg |-> FormatInt(response.status_code)
                           \o " Client Error for url: " \o url])
    ELSE IF 500 <= response.status_code /\ response.status_code < 600
    THEN Some([type |-> "HTTPError",
               msg |-> FormatInt(response.status_code)
                           \o " Server Error for url: " \o url])
    ELSE None

PyDict(d) == [dict |-> d]

\* What response.json() makes of the body texts that occur: the parsed
\* value, or no value when the text is not JSON.
json_loads(text) ==
    CASE text = "{\"choices\": []}" -> Some(PyDict([choices |-> PyList(<<>>)]))
      [] text = "[]" -> Some(PyList(<<>>))
      [] OTHER -> None

\* The exception response.json() raises on a body that is not JSON
\* (requests.exceptions.JSONDecodeError, a RequestException).
JsonError == [type |-> "JSONDecodeError", msg |-> "Expecting value"]

---------------------------------------------------------------------------
(* client.py: operations                                                   *)

DefaultMaxTokens == 300
HealthTimeout == 5

\* Variant of RequestData that unpacks kwargs first.
RequestData_KwargsFirst(self, messages, max_tokens, kwargs) ==
    LET base == [model |-> self.model, messages |-> messages,
                 max_tokens |-> max_tokens]
    IN  [k \in DOMAIN base \cup DOMAIN kwargs |->
            IF k \in DOMAIN base THEN base[k] ELSE kwargs[k]]

\* {"model": ..., "messages": ..., "max_tokens": ..., **kwargs}: a key given
\* again by kwargs takes the value of kwargs.
RequestData(self, messages, max_tokens, kwargs) ==
    LET base == [model |-> self.model, messages |-> messages,
                 max_tokens |-> max_tokens]
    IN  [k \in DOMAIN base \cup DOMAIN kwargs |->
            IF k \in DOMAIN kwargs THEN kwargs[k] ELSE base[k]]

Diagnostic(url, e) == "Error making request to " \o url \o ": " \o e.msg

\* Variant of Reraise that raises again without the diagnostic.
Reraise_NoDiagnostic(self, sent, url, e) ==
    [self |-> self, http |-> <<sent>>, raised |-> Some(e), returned |-> None,
     stderr |-> <<>>]

\* The try/except of make_request and make_request_raw around a body that
\* raised e: a RequestException is reported on stderr and raised again, any
\* other exception passes through.
Reraise(self, sent, url, e) ==
    [self |-> self, http |-> <<sent>>, raised |-> Some(e), returned |-> None,
     stderr |-> IF IsRequestException(e) THEN <<Diagnostic(url, e)>> ELSE <<>>]

\* Variant of make_request that posts once more when the transport failed.
make_request_Retry(self, messages, max_tokens_arg, kwargs, outcome) ==
    LET max_tokens == Bind(max_tokens_arg, DefaultMaxTokens)
        url == self.base_url \o "/v1/chat/completions"
        data == RequestData(self, messages, max_tokens, kwargs)
        sent == [method |-> "POST", url |-> url, json |-> data]
    IN  IF ~IsResponse(outcome)
        THEN [Reraise(self, sent, url, outcome.exc) EXCEPT !.http = <<sent, sent>>]
        ELSE IF raise_for_status(outcome, url) # None
        THEN Reraise(self, sent, url, raise_for_status(outcome, url)[1])
        ELSE IF json_loads(outcome.text) = None
        THEN Reraise(self, sent, url, JsonError)
        ELSE [self |-> self, http |-> <<sent>>, raised |-> None,
              returned |-> json_loads(outcome.text), stderr |-> <<>>]

\* Variant of make_request that keeps a model passed in kwargs on the client.
make_request_SetsModel(self, messages, max_tokens_arg, kwargs, outcome) ==
    LET max_tokens == Bind(max_tokens_arg, DefaultMaxTokens)
        self1 == IF "model" \in DOMAIN kwargs
                 THEN [self EXCEPT !.model = kwargs.model] ELSE self
        url == self1.base_url \o "/v1/chat/completions"
        data == RequestData(self1, messages, max_tokens, kwargs)
        sent == [method |-> "POST", url |-> url, json |-> data]
    IN  IF ~IsResponse(outcome) THEN Reraise(self1, sent, url, outcome.exc)
        ELSE IF raise_for_status(outcome, url) # None
        THEN Reraise(self1, sent, url, raise_for_status(outcome, url)[1])
        ELSE IF json_loads(outcome.text) = None
        THEN Reraise(self1, sent, url, JsonError)
        ELSE [self |-> self1, http |-> <<sent>>, raised |-> None,
              returned |-> json_loads(outcome.text), stderr |-> <<>>]

\* Variant of make_request whose handler reports the error and returns.
make_request_Swallow(self, messages, max_tokens_arg, kwargs, outcome) ==
    LET max_tokens == Bind(max_tokens_arg, DefaultMaxTokens)
        url == self.base_url \o "/v1/chat/completions"
        data == RequestData(self, messages, max_tokens, kwargs)
        sent == [method |-> "POST", url |-> url, json |-> data]
        swallowed(e) == [Reraise(self, sent, url, e) EXCEPT
                             !.raised = None, !.returned = Some(None)]
    IN  IF ~IsResponse(outcome) THEN swallowed(outcome.exc)
        ELSE IF raise_for_status(outcome, url) # None
        THEN swallowed(raise_for_status(outcome, url)[1])
        ELSE IF json_loads(outcome.text) = None
        THEN swallowed(JsonError)
        ELSE [self |-> self, http |-> <<sent>>, raised |-> None,
              returned |-> json_loads(outcome.text), stderr |-> <<>>]

make_request(self, messages, max_tokens_arg, kwargs, outcome) ==
    LET max_tokens == Bind(max_tokens_arg, DefaultMaxTokens)
        url == self.base_url \o "/v1/chat/completions"
        data == RequestData(self, messages, max_tokens, kwargs)
        sent == [method |-> "POST", url |-> url, json |-> data]
    IN  IF ~IsResponse(outcome) THEN Reraise(self, sent, url, outcome.exc)
        ELSE IF raise_for_status(outcome, url) # None
        THEN Reraise(self, sent, url, raise_for_status(outcome, url)[1])
        ELSE IF json_loads(outcome.text) = None
        THEN Reraise(self, sent, url, JsonError)
        ELSE [self |-> self, http |-> <<sent>>, raised |-> None,
              returned |-> json_loads(outcome.text), stderr |-> <<>>]

\* Variant of make_request_raw that keeps the model it sent in self.model.
make_request_raw_KeepsModel(self, messages, max_tokens_arg, kwargs, outcome) ==
    LET max_tokens == Bind(max_tokens_arg, DefaultMaxTokens)
        url == self.base_url \o "/v1/chat/completions"
        data == RequestData(self, messages, max_tokens, kwargs)
        self1 == [self EXCEPT !.model = data.model]
        sent == [method |-> "POST", url |-> url, json |-> data]
    IN  IF ~IsResponse(outcome) THEN Reraise(self1, sent, url, outcome.exc)
        ELSE IF raise_for_status(outcome, url) # None
        THEN Reraise(self1, sent, url, raise_for_status(outcome, url)[1])
        ELSE [self |-> self1, http |-> <<sent>>, raised |-> None,
              returned |-> Some(PyStr(outcome.text)), stderr |-> <<>>]

\* Variant of make_request_raw that does not check the status.
make_request_raw_NoStatusCheck(self, messages, max_tokens_arg, kwargs, outcome) ==
    LET max_tokens == Bind(max_tokens_arg, DefaultMaxTokens)
        url == self.base_url \o "/v1/chat/completions"
        data == RequestData(self, messages, max_tokens, kwargs)
        sent == [method |-> "POST", url |-> url, json |-> data]
    IN  IF ~IsResponse(outcome) THEN Reraise(self, sent, url, outcome.exc)
        ELSE [self |-> self, http |-> <<sent>>, raised |-> None,
              returned |-> Some(PyStr(outcome.text)), stderr |-> <<>>]

make_request_raw(self, messages, max_tokens_arg, kwargs, outcome) ==
    LET max_tokens == Bind(max_tokens_arg, DefaultMaxTokens)
        url == self.base_url \o "/v1/chat/completions"
        data == RequestData(self, messages, max_tokens, kwargs)
        sent == [method |-> "POST", url |-> url, json |-> data]
    IN  IF ~IsResponse(outcome) THEN Reraise(self, sent, url, outcome.exc)
        ELSE IF raise_for_status(outcome, url) # None
        THEN Reraise(self, sent, url, raise_for_status(outcome, url)[1])
        ELSE [self |-> self, http |-> <<sent>>, raised |-> None,
              returned |-> Some(PyStr(outcome.text)), stderr |-> <<>>]

\* Variant of health_check that passes no timeout.
health_check_NoTimeout(self, outcome) ==
    LET sent == [method |-> "GET", url |-> self.base_url \o "/health"]
    IN  IF ~IsResponse(outcome)
        THEN IF IsRequestException(outcome.exc)
             THEN [self |-> self, http |-> <<sent>>, raised |-> None,
                   returned |-> Some(FALSE), stderr |-> <<>>]
             ELSE [self |-> self, http |-> <<sent>>, raised |-> Some(outcome.exc),
                   returned |-> None, stderr |-> <<>>]
        ELSE [self |-> self, http |-> <<sent>>, raised |-> None,
              returned |-> Some(outcome.status_code = 200), stderr |-> <<>>]

\* Variant of health_check that keeps the probed URL in self.base_url.
health_check_MovesBase(self, outcome) ==
    LET sent == [method |-> "GET", url |-> self.base_url \o "/health",
                 timeout |-> HealthTimeout]
        self1 == [self EXCEPT !.base_url = self.base_url \o "/health"]
    IN  IF ~IsResponse(outcome)
        THEN IF IsRequestException(outcome.exc)
             THEN [self |-> self1, http |-> <<sent>>, raised |-> None,
                   returned |-> Some(FALSE), stderr |-> <<>>]
             ELSE [self |-> self1, http |-> <<sent>>, raised |-> Some(outcome.exc),
                   returned |-> None, stderr |-> <<>>]
        ELSE [self |-> self1, http |-> <<sent>>, raised |-> None,
              returned |-> Some(outcome.status_code = 200), stderr |-> <<>>]

\* Variant of health_check that accepts every 2xx status.
health_check_Any2xx(self, outcome) ==
    LET sent == [method |-> "GET", url |-> self.base_url \o "/health",
                 timeout |-> HealthTimeout]
    IN  IF ~IsResponse(outcome)
        THEN IF IsRequestException(outcome.exc)
             THEN [self |-> self, http |-> <<sent>>, raised |-> None,
                   returned |-> Some(FALSE), stderr |-> <<>>]
             ELSE [self |-> self, http |-> <<sent>>, raised |-> Some(outcome.exc),
                   returned |-> None, stderr |-> <<>>]
        ELSE [self |-> self, http |-> <<sent>>, raised |-> None,
              returned |-> Some(outcome.status_code \in 200..299),
              stderr |-> <<>>]

health_check(self, outcome) ==
    LET sent == [method |-> "GET", url |-> self.base_url \o "/health",
                 timeout |-> HealthTimeout]
    IN  IF ~IsResponse(outcome)
        THEN IF IsRequestException(outcome.exc)
             THEN [self |-> self, http |-> <<sent>>, raised |-> None,
                   returned |-> Some(FALSE), stderr |-> <<>>]
             ELSE [self |-> self, http |-> <<sent>>, raised |-> Some(outcome.exc),
                   returned |-> None, stderr |-> <<>>]
        ELSE [self |-> self, http |-> <<sent>>, raised |-> None,
              returned |-> Some(outcome.status_code = 200), stderr |-> <<>>]

repr(self) ==
    [self |-> self, http |-> <<>>, raised |-> None,
     returned |-> Some("SGLangMistralClient(host='" \o self.host \o "', port="
                            \o FormatInt(self.port) \o ", model='"
                            \o self.model \o "')"),
     stderr |-> <<>>]

(* Inputs of the operations.                                               *)
Outcomes ==
    {TransportError("ConnectionError", "Connection failed"),
     TransportError("Timeout", "Request timed out"),
     TransportError("RequestException", "Generic request error"),
     Interrupted,
     Response(200, "{\"choices\": []}"), Response(200, "[]"),
     Response(200, "Internal Server Error"), Response(204, ""),
     Response(300, "[]"), Response(300, ""),
     Response(404, "[]"), Response(404, ""),
     Response(500, "Internal Server Error")}

MessageArgs ==
    {create_message("Hello", Omitted),
     create_message("Describe", Arg(Some(<<"https://a/1.jpg">>)))}
MaxTokensArgs == {Omitted, Arg(500)}
KwargsArgs == {<<>>, [temperature |-> 1],
               [model |-> "other-model", stream |-> TRUE]}

OpEnvs == {NoEnv,
           [SGLANG_HOST |-> Some("env-host"), SGLANG_PORT |-> Some(<<"8", "0", "8", "0">>),
            SGLANG_MODEL |-> Some("env-model")]}
OpInitArgs == {<<Omitted, Omitted, Omitted>>,
               <<Arg(Some("custom-host")), Arg(None), Arg(None)>>,
               <<Arg(Some("custom-host")), Arg(Some(9999)), Arg(Some("custom-model"))>>}

(* One client after its construction, and the operations called on it.     *)
Init ==
    /\ env \in OpEnvs
    /\ \E a \in OpInitArgs :
           /\ __init__(a[1], a[2], a[3], env).raised = None
           /\ client = Some(__init__(a[1], a[2], a[3], env).self)
    /\ http = <<>>
    /\ nHttp = 0
    /\ nCalls = 0
    /\ stderr = <<>>
    /\ last = [op |-> "__init__"]
    /\ OthersIdle

\* The effect of a finished call r on the state.
Finish(r, call) ==
    /\ client' = Some(r.self)
    /\ http' = r.http
    /\ nHttp' = nHttp + Len(r.http)
    /\ nCalls' = nCalls + 1
    /\ stderr' = stderr \o r.stderr
    /\ last' = call
    /\ UNCHANGED <<env, others>>

CallMakeRequest ==
    /\ client # None
    /\ nCalls < MaxCalls
    /\ \E messages \in MessageArgs, max_tokens \in MaxTokensArgs,
          kwargs \in KwargsArgs, outcome \in Outcomes :
           LET r == make_request(client[1], messages, max_tokens, kwargs,
                                 outcome)
           IN  Finish(r, [op |-> "make_request", messages |-> messages,
                          max_tokens |-> max_tokens, kwargs |-> kwargs,
                          outcome |-> outcome, raised |-> r.raised,
                          returned |-> r.returned])

CallMakeRequestRaw ==
    /\ client # None
    /\ nCalls < MaxCalls
    /\ \E messages \in MessageArgs, max_tokens \in MaxTokensArgs,
          kwargs \in KwargsArgs, outcome \in Outcomes :
           LET r == make_request_raw(client[1], messages, max_tokens, kwargs,
                                     outcome)
           IN  Finish(r, [op |-> "make_request_raw", messages |-> messages,
                          max_tokens |-> max_tokens, kwargs |-> kwargs,
                          outcome |-> outcome, raised |-> r.raised,
                          returned |-> r.returned])

CallHealthCheck ==
    /\ client # None
    /\ nCalls < MaxCalls
    /\ \E outcome \in Outcomes :
           LET r == health_check(client[1], outcome)
           IN  Finish(r, [op |-> "health_check", outcome |-> outcome,
                          raised |-> r.raised, returned |-> r.returned])

CallRepr ==
    /\ client # None
    /\ nCalls < MaxCalls
    /\ LET r == repr(client[1])
       IN  Finish(r, [op |-> "__repr__", raised |-> r.raised,
                      returned |-> r.returned])

Next == CallMakeRequest \/ CallMakeRequestRaw \/ CallHealthCheck \/ CallRepr

Spec == Init /\ [][Next]_vars

---------------------------------------------------------------------------
(* One client and the sequence of calls made on it, each call kept with    *)
(* what it sent and how it ended.                                          *)

SeqOutcomes ==
    {TransportError("ConnectionError", "Connection failed"),
     Response(200, "[]"), Response(204, ""),
     Response(500, "Internal Server Error")}
SeqMessages == create_message("Hello", Omitted)
SeqKwargsArgs == {<<>>, [model |-> "other-model"]}

FinishRecorded(r, call) ==
    /\ client' = Some(r.self)
    /\ http' = r.http
    /\ nHttp' = nHttp + Len(r.http)
    /\ nCalls' = nCalls + 1
    /\ stderr' = stderr \o r.stderr
    /\ last' = call
    /\ history' = Append(history, call @@ [sent |-> r.http])
    /\ UNCHANGED <<env, threads, main, stdout, heap>>

SeqMakeRequest ==
    /\ nCalls < MaxCalls
    /\ \E kwargs \in SeqKwargsArgs, outcome \in SeqOutcomes :
           LET r == make_request(client[1], SeqMessages, Omitted, kwargs, outcome)
           IN  FinishRecorded(r, [op |-> "make_request", messages |-> SeqMessages,
                                  max_tokens |-> Omitted, kwargs |-> kwargs,
                                  outcome |-> outcome, raised |-> r.raised,
                                  returned |-> r.returned])

SeqMakeRequestRaw ==
    /\ nCalls < MaxCalls
    /\ \E kwargs \in SeqKwargsArgs, outcome \in SeqOutcomes :
           LET r == make_request_raw(client[1], SeqMessages, Omitted, kwargs,
                                     outcome)
           IN  FinishRecorded(r, [op |-> "make_request_raw",
                                  messages |-> SeqMessages,
                                  max_tokens |-> Omitted, kwargs |-> kwargs,
                                  outcome |-> outcome, raised |-> r.raised,
                                  returned |-> r.returned])

SeqHealthCheck ==
    /\ nCalls < MaxCalls
    /\ \E outcome \in SeqOutcomes :
           LET r == health_check(client[1], outcome)
           IN  FinishRecorded(r, [op |-> "health_check", outcome |-> outcome,
                                  raised |-> r.raised, returned |-> r.returned])

NextCalls == SeqMakeRequest \/ SeqMakeRequestRaw \/ SeqHealthCheck

SpecCalls == Init /\ [][NextCalls]_vars

---------------------------------------------------------------------------
(* Calls of the request operations with keyword arguments.                 *)

\* How Python binds a call op(messages, **keywords) to the signature
\* (self, messages, max_tokens=300, **kwargs): a keyword named as a
\* parameter is that parameter, a second value for messages is a TypeError,
\* every other keyword goes to kwargs.
call_binding(op, messages, keywords) ==
    IF "messages" \in DOMAIN keywords
    THEN [raised |-> Some([type |-> "TypeError",
                           msg |-> op \o "() got multiple values for argument 'messages'"])]
    ELSE [raised |-> None,
          messages |-> messages,
          max_tokens |-> IF "max_tokens" \in DOMAIN keywords
                         THEN Arg(keywords.max_tokens) ELSE Omitted,
          kwargs |-> [k \in DOMAIN keywords \ {"max_tokens"} |-> keywords[k]]]

\* Every choice of keywords among messages, max_tokens, model, temperature.
KeywordArgs ==
    LET values == [messages |-> create_message("Describe", Omitted),
                   max_tokens |-> 7, model |-> "other-model", temperature |-> 1]
    IN  {[k \in keys |-> values[k]] : keys \in SUBSET DOMAIN values}

KeywordOutcomes ==
    {TransportError("ConnectionError", "Connection failed"), Response(200, "[]")}

CallWithKeywords ==
    /\ client # None
    /\ nCalls < MaxCalls
    /\ \E op \in {"make_request", "make_request_raw"},
          keywords \in KeywordArgs, outcome \in KeywordOutcomes :
           LET messages == create_message("Hello", Omitted)
               b == call_binding(op, messages, keywords)
               r == IF b.raised # None
                    THEN [self |-> client[1], http |-> <<>>, raised |-> b.raised,
                          returned |-> None, stderr |-> <<>>]
                    ELSE IF op = "make_request"
                    THEN make_request(client[1], b.messages, b.max_tokens,
                                      b.kwargs, outcome)
                    ELSE make_request_raw(client[1], b.messages, b.max_tokens,
                                          b.kwargs, outcome)
           IN  Finish(r, [op |-> op, messages |-> messages,
                          keywords |-> keywords, outcome |-> outcome,
                          raised |-> r.raised, returned |-> r.returned])

SpecKeywords == Init /\ [][CallWithKeywords]_vars

---------------------------------------------------------------------------
(* The time a call waits for the server.                                   *)

\* A server accepts the connection and then responds after some seconds,
\* or never.
ServerBehaviours ==
    {[responds |-> FALSE]}
        \cup {[responds |-> TRUE, after |-> d, response |-> Response(200, "[]")] :
                 d \in 0..MaxDelay}

\* The HTTP library gives up after the timeout of the request, when the
\* request has one (requests.get(..., timeout=5)), and never otherwise.
TimedOut(sent, waited) ==
    "timeout" \in DOMAIN sent /\ waited >= sent.timeout

ReadTimeout == TransportError("Timeout", "Read timed out.")

\* The operation op of the client self, ending with outcome.
WaitOp(op, self, outcome) ==
    CASE op = "make_request" ->
             make_request(self, create_message("Hello", Omitted), Omitted, <<>>,
                          outcome)
      [] op = "make_request_raw" ->
             make_request_raw(self, create_message("Hello", Omitted), Omitted,
                              <<>>, outcome)
      [] op = "health_check" -> health_check(self, outcome)

\* One client after its construction, no call waiting.
InitWait ==
    /\ env \in OpEnvs
    /\ \E a \in OpInitArgs :
           /\ __init__(a[1], a[2], a[3], env).raised = None
           /\ client = Some(__init__(a[1], a[2], a[3], env).self)
    /\ http = <<>>
    /\ nHttp = 0
    /\ nCalls = 0
    /\ stderr = <<>>
    /\ last = [op |-> "__init__", pc |-> "done"]
    /\ OthersIdle

\* An operation sends its request and starts to wait.
WaitCall ==
    /\ client # None
    /\ nCalls < MaxCalls
    /\ last.pc = "done"
    /\ \E op \in {"make_request", "make_request_raw", "health_check"},
          server \in ServerBehaviours :
           LET sent == WaitOp(op, client[1], ReadTimeout).http
           IN  /\ http' = sent
               /\ nHttp' = nHttp + Len(sent)
               /\ last' = [op |-> op, pc |-> "wait", server |-> server,
                           waited |-> 0, outcome |-> None, raised |-> None,
                           returned |-> None]
    /\ nCalls' = nCalls + 1
    /\ UNCHANGED <<env, client, stderr, others>>

WaitEnds(outcome) ==
    LET r == WaitOp(last.op, client[1], outcome)
    IN  /\ last' = [last EXCEPT !.pc = "done", !.outcome = Some(outcome),
                                !.raised = r.raised, !.returned = r.returned]
        /\ client' = Some(r.self)
        /\ stderr' = stderr \o r.stderr
        /\ UNCHANGED <<env, http, nHttp, nCalls, others>>

\* The server's response arrives.
WaitRespond ==
    /\ last.pc = "wait"
    /\ last.server.responds
    /\ last.waited >= last.server.after
    /\ ~TimedOut(http[1], last.waited)
    /\ WaitEnds(last.server.response)

\* The timeout of the request expires.
WaitTimeout ==
    /\ last.pc = "wait"
    /\ TimedOut(http[1], last.waited)
    /\ WaitEnds(ReadTimeout)

\* A second passes while the call waits.
WaitTick ==
    /\ last.pc = "wait"
    /\ ~TimedOut(http[1], last.waited)
    /\ ~(last.server.responds /\ last.waited >= last.server.after)
    /\ last.waited < MaxWait
    /\ last' = [last EXCEPT !.waited = last.waited + 1]
    /\ UNCHANGED <<env, client, http, nHttp, nCalls, stderr, others>>

NextWait == WaitCall \/ WaitRespond \/ WaitTimeout \/ WaitTick

\* Time passes, responses arrive and timeouts expire.
SpecWait ==
    /\ InitWait
    /\ [][NextWait]_vars
    /\ WF_vars(WaitTick)
    /\ WF_vars(WaitRespond)
    /\ WF_vars(WaitTimeout)

---------------------------------------------------------------------------
(* cli.py: main                                                            *)

\* The keys of a dict, one after the other. (A Python dict keeps the order
\* of insertion; the dicts of this model have at most one key.)
RECURSIVE KeysOf(_)
KeysOf(keys) ==
    IF keys = {} THEN <<>>
    ELSE LET k == CHOOSE x \in keys : TRUE
         IN  <<k>> \o KeysOf(keys \ {k})

RECURSIVE Join(_, _)
Join(strs, sep) ==
    IF strs = <<>> THEN ""
    ELSE IF Len(strs) = 1 THEN strs[1]
    ELSE strs[1] \o sep \o Join(Tail(strs), sep)

RECURSIVE Indent(_)
Indent(level) == IF level = 0 THEN "" ELSE "  " \o Indent(level - 1)

\* str(value), as print(response) shows a parsed response.
RECURSIVE py_repr(_)
py_repr(v) ==
    IF "list" \in DOMAIN v
    THEN "[" \o Join([i \in 1..Len(v.list) |-> py_repr(v.list[i])], ", ") \o "]"
    ELSE IF "dict" \in DOMAIN v
    THEN LET keys == KeysOf(DOMAIN v.dict)
         IN  "{" \o Join([i \in 1..Len(keys) |->
                             "'" \o keys[i] \o "': " \o py_repr(v.dict[keys[i]])],
                         ", ") \o "}"
    ELSE "'" \o v.str \o "'"

\* json.dumps(value, indent=2), for a value at nesting depth level.
RECURSIVE json_dumps(_, _)
json_dumps(v, level) ==
    IF "list" \in DOMAIN v
    THEN IF v.list = <<>> THEN "[]"
         ELSE "[\n" \o Join([i \in 1..Len(v.list) |->
                                Indent(level + 1) \o json_dumps(v.list[i], level + 1)],
                            ",\n")
                   \o "\n" \o Indent(level) \o "]"
    ELSE IF "dict" \in DOMAIN v
    THEN LET keys == KeysOf(DOMAIN v.dict)
         IN  IF keys = <<>> THEN "{}"
             ELSE "{\n" \o Join([i \in 1..Len(keys) |->
                                    Indent(level + 1) \o "\"" \o keys[i] \o "\": "
                                        \o json_dumps(v.dict[keys[i]], level + 1)],
                                ",\n")
                       \o "\n" \o Indent(level) \o "}"
    ELSE "\"" \o v.str \o "\""

\* Variant of request_method that lets --json decide first.
request_method_JsonFirst(args) ==
    IF args.json THEN "make_request"
    ELSE IF args.raw THEN "make_request_raw" ELSE "make_request"

\* The operation main calls for the given flags.
request_method(args) ==
    IF args.raw THEN "make_request_raw" ELSE "make_request"

\* Variant of printed that does not look at args.json.
printed_IgnoresJson(args, response) ==
    IF args.raw THEN response.str
    ELSE py_repr(response)

\* What main prints for a response: the raw text, the indented JSON, or the
\* str() of the parsed value.
printed(args, response) ==
    IF args.raw THEN response.str
    ELSE IF args.json THEN json_dumps(response, 0)
    ELSE py_repr(response)

\* Variant of except_clauses without the KeyboardInterrupt clause.
except_clauses_NoInterrupt(e) ==
    [returned |-> 1, stderr |-> "Error: " \o e.msg]

\* The except clauses of main for an exception e raised inside the try:
\* what main returns and what it writes to stderr.
except_clauses(e) ==
    IF e.type = "KeyboardInterrupt"
    THEN [returned |-> 130, stderr |-> "\nInterrupted by user"]
    ELSE [returned |-> 1, stderr |-> "Error: " \o e.msg]

\* Variant of client_kwargs that fills in the default host itself.
client_kwargs_DefaultHost(args) ==
    [host |-> IF args.host = None THEN Some(DefaultHost) ELSE args.host,
     port |-> args.port, model |-> args.model]

\* The keyword arguments main constructs the client with.
client_kwargs(args) ==
    [host |-> args.host, port |-> args.port, model |-> args.model]

\* Variant of request_kwargs that leaves max_tokens to the client's default.
request_kwargs_NoMaxTokens(args, messages) ==
    [messages |-> messages, max_tokens |-> Omitted]

\* The keyword arguments main calls make_request or make_request_raw with.
request_kwargs(args, messages) ==
    [messages |-> messages, max_tokens |-> Arg(args.max_tokens)]

(* Inputs of main.                                                         *)
\* What parser.parse_args() gives for a valid command line.
ParsedArgs ==
    [host : {None, Some("custom-host")},
     port : {None, Some(9999)},
     model : {None, Some("custom-model")},
     max_tokens : {300, 500},
     text : {None, Some(""), Some("Hello")},
     image_url : {None, Some(<< <<>> >>), Some(<< <<>>, <<>> >>),
                  Some(<< <<"https://a/1.jpg">>, <<"https://a/2.jpg">> >>)},
     raw : BOOLEAN,
     json : BOOLEAN]

\* How parser.parse_args() ends on other command lines: argparse prints and
\* raises SystemExit, with code 2 for an error, with code 0 for --help.
ParserExits ==
    {[type |-> "SystemExit", code |-> 2,
      stdout |-> <<>>, stderr |-> <<"usage: error: unrecognized arguments">>],
     [type |-> "SystemExit", code |-> 0,
      stdout |-> <<"usage: Interact with SGLang Mistral model">>, stderr |-> <<>>]}

MainEnvs ==
    {NoEnv,
     [SGLANG_HOST |-> Some("env-host"), SGLANG_PORT |-> Some(<<"8", "0", "8", "0">>),
      SGLANG_MODEL |-> Some("env-model")],
     [SGLANG_HOST |-> None, SGLANG_PORT |-> Some(<<"a", "b", "c">>),
      SGLANG_MODEL |-> None]}

MainOutcomes ==
    {TransportError("ConnectionError", "Connection failed"),
     Interrupted,
     Response(200, "{\"choices\": []}"), Response(200, "[]"),
     Response(200, "Internal Server Error"),
     Response(500, "Internal Server Error")}

(* One run of main.                                                        *)
InitMain ==
    /\ env \in MainEnvs
    /\ client = None
    /\ http = <<>>
    /\ nHttp = 0
    /\ nCalls = 0
    /\ stderr = <<>>
    /\ last = [op |-> "none"]
    /\ heap = <<>>
    /\ history = <<>>
    /\ threads = <<>>
    /\ stdout = <<>>
    /\ main = [pc |-> "parse_args", args |-> None,
               flattened_image_urls |-> None, text_message |-> None,
               image_urls |-> None, messages |-> None, kwargs |-> None,
               called |-> None,
               outcome |-> None, response |-> None, caught |-> None,
               raised |-> None, returned |-> None]

\* The exception e leaves the try block: an except clause ends main.
MainExcept(e) ==
    /\ main' = [main EXCEPT !.pc = "done", !.caught = Some(e),
                            !.returned = Some(except_clauses(e).returned)]
    /\ stderr' = Append(stderr, except_clauses(e).stderr)

\* parser.parse_args(), before the try block.
MainParseArgs ==
    /\ main.pc = "parse_args"
    /\ \/ \E args \in ParsedArgs :
              /\ main' = [main EXCEPT !.pc = "client", !.args = Some(args)]
              /\ UNCHANGED <<stdout, stderr>>
       \/ \E exit \in ParserExits :
              /\ main' = [main EXCEPT !.pc = "done",
                                      !.raised = Some([type |-> exit.type,
                                                       code |-> exit.code])]
              /\ stdout' = stdout \o exit.stdout
              /\ stderr' = stderr \o exit.stderr
    /\ UNCHANGED <<env, client, http, nHttp, nCalls, last, history, threads, heap>>

\* client = SGLangMistralClient(host=args.host, port=args.port, model=args.model)
MainClient ==
    /\ main.pc = "client"
    /\ LET kw == client_kwargs(main.args[1])
           r == __init__(Arg(kw.host), Arg(kw.port), Arg(kw.model), env)
           e == except_clauses(r.raised[1])
       IN  IF r.raised # None
           THEN /\ main' = [main EXCEPT !.pc = "done", !.kwargs = Some(kw),
                                        !.caught = r.raised,
                                        !.returned = Some(e.returned)]
                /\ stderr' = Append(stderr, e.stderr)
                /\ UNCHANGED client
           ELSE /\ client' = Some(r.self)
                /\ main' = [main EXCEPT !.pc = "flatten", !.kwargs = Some(kw)]
                /\ UNCHANGED stderr
    /\ UNCHANGED <<env, http, nHttp, nCalls, last, history, threads, stdout, heap>>

MainFlatten ==
    /\ main.pc = "flatten"
    /\ main' = [main EXCEPT
                   !.pc = "determine",
                   !.flattened_image_urls =
                       Some(flattened_image_urls(main.args[1].image_url))]
    /\ UNCHANGED <<env, client, http, nHttp, nCalls, stderr, last, history,
                   threads, stdout, heap>>

MainDetermine ==
    /\ main.pc = "determine"
    /\ LET r == determine_text_and_images(main.args[1].text,
                                          main.flattened_image_urls[1])
       IN  main' = [main EXCEPT !.pc = "create_message",
                                !.text_message = Some(r[1]),
                                !.image_urls = Some(r[2])]
    /\ UNCHANGED <<env, client, http, nHttp, nCalls, stderr, last, history,
                   threads, stdout, heap>>

MainCreateMessage ==
    /\ main.pc = "create_message"
    /\ main' = [main EXCEPT
                   !.pc = "request",
                   !.messages = Some(create_message(main.text_message[1],
                                                    Arg(main.image_urls[1])))]
    /\ UNCHANGED <<env, client, http, nHttp, nCalls, stderr, last, history,
                   threads, stdout, heap>>

\* client.make_request_raw(...) or client.make_request(...), by args.raw.
MainRequest ==
    /\ main.pc = "request"
    /\ \E outcome \in MainOutcomes :
           LET args == main.args[1]
               method == request_method(args)
               kw == request_kwargs(args, main.messages[1])
               r == IF method = "make_request_raw"
                    THEN make_request_raw(client[1], kw.messages, kw.max_tokens,
                                          <<>>, outcome)
                    ELSE make_request(client[1], kw.messages, kw.max_tokens,
                                      <<>>, outcome)
               called == [main EXCEPT !.called = Some(method),
                                      !.outcome = Some(outcome)]
           IN  /\ client' = Some(r.self)
               /\ http' = r.http
               /\ nHttp' = nHttp + Len(r.http)
               /\ nCalls' = nCalls + 1
               /\ IF r.raised # None
                  THEN /\ main' = [called EXCEPT
                                      !.pc = "done",
                                      !.caught = r.raised,
                                      !.returned =
                                          Some(except_clauses(r.raised[1]).returned)]
                       /\ stderr' = (stderr \o r.stderr)
                                        \o <<except_clauses(r.raised[1]).stderr>>
                  ELSE /\ main' = [called EXCEPT !.pc = "print",
                                                 !.response = r.returned]
                       /\ stderr' = stderr \o r.stderr
    /\ UNCHANGED <<env, last, history, threads, stdout, heap>>

\* print(response) or print(json.dumps(response, indent=2)), then return 0.
MainPrint ==
    /\ main.pc = "print"
    /\ \E error \in {None, Some([type |-> "BrokenPipeError",
                                  msg |-> "Broken pipe"])} :
           IF error # None
           THEN MainExcept(error[1]) /\ UNCHANGED stdout
           ELSE /\ stdout' = Append(stdout, printed(main.args[1], main.response[1]))
                /\ main' = [main EXCEPT !.pc = "done", !.returned = Some(0)]
                /\ UNCHANGED stderr
    /\ UNCHANGED <<env, client, http, nHttp, nCalls, last, history, threads, heap>>

\* Ctrl-C while main is inside the try block and not waiting for the server.
MainInterrupt ==
    /\ main.pc \in {"client", "flatten", "determine", "create_message", "print"}
    /\ MainExcept([type |-> "KeyboardInterrupt", msg |-> ""])
    /\ UNCHANGED <<env, client, http, nHttp, nCalls, last, history, threads,
                   stdout, heap>>

NextMain ==
    \/ MainParseArgs \/ MainClient \/ MainFlatten \/ MainDetermine
    \/ MainCreateMessage \/ MainRequest \/ MainPrint \/ MainInterrupt

SpecMain == InitMain /\ [][NextMain]_vars

---------------------------------------------------------------------------
(* Several threads calling one client.                                     *)

NumThreads == 2
Threads == 1..NumThreads

\* The URL a call evaluates from self.base_url.
thread_url(self, op) ==
    self.base_url \o (IF op = "health_check" THEN "/health"
                      ELSE "/v1/chat/completions")

\* Variant of thread_data that keeps the model it sent in self.model.
thread_data_KeepsModel(self, frame) ==
    LET data == RequestData(self, frame.messages,
                            Bind(frame.max_tokens, DefaultMaxTokens), frame.kwargs)
    IN  [self |-> [self EXCEPT !.model = data.model], data |-> data]

\* The body a call builds from self.model and its own arguments.
thread_data(self, frame) ==
    [self |-> self,
     data |-> RequestData(self, frame.messages,
                          Bind(frame.max_tokens, DefaultMaxTokens), frame.kwargs)]

\* The request a call sends, from its own url and data.
thread_sent(frame) ==
    IF frame.op = "health_check"
    THEN [method |-> "GET", url |-> frame.url[1], timeout |-> HealthTimeout]
    ELSE [method |-> "POST", url |-> frame.url[1], json |-> frame.data[1]]

\* What a call does with the outcome of its own request: the rest of the
\* try block and the except clause.
thread_result(op, url, outcome) ==
    LET raise(e) == [raised |-> Some(e), returned |-> None,
                     stderr |-> IF IsRequestException(e)
                                THEN <<Diagnostic(url, e)>> ELSE <<>>]
        return(v) == [raised |-> None, returned |-> Some(v), stderr |-> <<>>]
    IN  IF op = "health_check"
        THEN IF IsResponse(outcome) THEN return(outcome.status_code = 200)
             ELSE IF IsRequestException(outcome.exc) THEN return(FALSE)
             ELSE [raised |-> Some(outcome.exc), returned |-> None, stderr |-> <<>>]
        ELSE IF ~IsResponse(outcome) THEN raise(outcome.exc)
        ELSE IF raise_for_status(outcome, url) # None
        THEN raise(raise_for_status(outcome, url)[1])
        ELSE IF op = "make_request_raw" THEN return(PyStr(outcome.text))
        ELSE IF json_loads(outcome.text) = None THEN raise(JsonError)
        ELSE return(json_loads(outcome.text)[1])

ThreadClients ==
    {__init__(Omitted, Omitted, Omitted, NoEnv).self,
     __init__(Arg(Some("custom-host")), Arg(Some(9999)), Arg(Some("custom-model")),
              NoEnv).self}

ThreadCalls ==
    {[op |-> "make_request", messages |-> create_message("Hello", Omitted),
      max_tokens |-> Omitted, kwargs |-> <<>>],
     [op |-> "make_request", messages |-> create_message("Hello", Omitted),
      max_tokens |-> Omitted, kwargs |-> [model |-> "other-model"]],
     [op |-> "make_request_raw",
      messages |-> create_message("Describe", Arg(Some(<<"https://a/1.jpg">>))),
      max_tokens |-> Arg(500), kwargs |-> <<>>],
     [op |-> "health_check", messages |-> <<>>, max_tokens |-> Omitted,
      kwargs |-> <<>>]}

ThreadOutcomes ==
    {TransportError("ConnectionError", "Connection failed"),
     Response(200, "[]"),
     Response(500, "Internal Server Error")}

IdleFrame ==
    [pc |-> "idle", op |-> "none", messages |-> <<>>, max_tokens |-> Omitted,
     kwargs |-> <<>>, url |-> None, data |-> None, outcome |-> None,
     raised |-> None, returned |-> None]

InitThreads ==
    /\ env = NoEnv
    /\ \E c \in ThreadClients : client = Some(c)
    /\ http = <<>>
    /\ nHttp = 0
    /\ nCalls = 0
    /\ stderr = <<>>
    /\ last = [op |-> "__init__"]
    /\ heap = <<>>
    /\ history = <<>>
    /\ threads = [t \in Threads |-> IdleFrame]
    /\ main = NoMain
    /\ stdout = <<>>

\* Thread t enters an operation and evaluates its url.
ThreadCall(t) ==
    /\ threads[t].pc = "idle"
    /\ \E call \in ThreadCalls :
           threads' = [threads EXCEPT ![t] =
               [IdleFrame EXCEPT
                   !.pc = IF call.op = "health_check" THEN "send" ELSE "data",
                   !.op = call.op, !.messages = call.messages,
                   !.max_tokens = call.max_tokens, !.kwargs = call.kwargs,
                   !.url = Some(thread_url(client[1], call.op))]]
    /\ nCalls' = nCalls + 1
    /\ UNCHANGED <<env, client, http, nHttp, stderr, last, history, main, stdout,
                   heap>>

\* Thread t builds the body of its request.
ThreadData(t) ==
    /\ threads[t].pc = "data"
    /\ LET r == thread_data(client[1], threads[t])
       IN  /\ client' = Some(r.self)
           /\ threads' = [threads EXCEPT ![t].pc = "send",
                                         ![t].data = Some(r.data)]
    /\ UNCHANGED <<env, http, nHttp, nCalls, stderr, last, history, main, stdout,
                   heap>>

\* requests.post / requests.get of thread t puts its request on the wire.
ThreadSend(t) ==
    /\ threads[t].pc = "send"
    /\ http' = Append(http, [thread |-> t, request |-> thread_sent(threads[t])])
    /\ nHttp' = nHttp + 1
    /\ threads' = [threads EXCEPT ![t].pc = "wait"]
    /\ UNCHANGED <<env, client, nCalls, stderr, last, history, main, stdout, heap>>

\* The request of thread t ends, and with it the call.
ThreadReturn(t) ==
    /\ threads[t].pc = "wait"
    /\ \E outcome \in ThreadOutcomes :
           LET r == thread_result(threads[t].op, threads[t].url[1], outcome)
           IN  /\ threads' = [threads EXCEPT ![t].pc = "done",
                                             ![t].outcome = Some(outcome),
                                             ![t].raised = r.raised,
                                             ![t].returned = r.returned]
               /\ stderr' = stderr \o r.stderr
    /\ UNCHANGED <<env, client, http, nHttp, nCalls, last, history, main, stdout,
                   heap>>

NextThreads ==
    \E t \in Threads :
        ThreadCall(t) \/ ThreadData(t) \/ ThreadSend(t) \/ ThreadReturn(t)

SpecThreads == InitThreads /\ [][NextThreads]_vars

---------------------------------------------------------------------------
(* setup-check.py                                                          *)
(* The printed lines are kept without their leading symbol.                *)

Placeholder == "your_huggingface_token_here"

\* The file .env of the working directory: absent, a readable file with its
\* assignments, a file that cannot be read, or a directory of that name.
\*   [kind |-> "absent"], [kind |-> "file", assignments |-> <<...>>],
\*   [kind |-> "unreadable"], [kind |-> "directory"]

\* "HF_TOKEN=" in content, and "HF_TOKEN=<value>" in content.
Assigns(file, name) ==
    \E i \in 1..Len(file.assignments) : file.assignments[i].name = name
AssignsValue(file, name, value) ==
    \E i \in 1..Len(file.assignments) :
        file.assignments[i] = [name |-> name, value |-> value]

\* hf_token and hf_token != "your_huggingface_token_here"
TokenConfigured(e) ==
    getenv(e, "HF_TOKEN", "") # "" /\ getenv(e, "HF_TOKEN", "") # Placeholder

\* What a check gives: its result or the exception that left it, os.environ
\* after it, and the lines it printed.
Checked(result, e, lines) ==
    [returned |-> Some(result), raised |-> None, environ |-> e, stdout |-> lines]

check_env_file(cwd, modules, e) ==
    LET head == "Checking environment configuration..."
        global(yes, no) ==
            IF TokenConfigured(e) THEN Checked(TRUE, e, <<head, yes>>)
            ELSE Checked(FALSE, e, <<head, no>>)
    IN  IF ~cwd.example
        THEN Checked(FALSE, e, <<head, ".env.example file not found!">>)
        ELSE IF cwd.env.kind = "absent"
        THEN global(".env file not found, but HF_TOKEN is available globally",
                    ".env file not found. Please run: cp .env.example .env")
        ELSE IF cwd.env.kind # "file"
        THEN Checked(FALSE, e, <<head, "Error reading .env file">>)
        ELSE IF AssignsValue(cwd.env, "HF_TOKEN", Placeholder)
        THEN global(".env has placeholder value, but HF_TOKEN is available globally",
                    "HF_TOKEN still has placeholder value.")
        ELSE IF ~Assigns(cwd.env, "HF_TOKEN")
        THEN global(".env missing HF_TOKEN, but it's available globally",
                    "HF_TOKEN not found in .env file.")
        ELSE Checked(TRUE, e, <<head, "Environment file configured">>)

check_dependencies(cwd, modules, e) ==
    LET head == "Checking dependencies..."
    IN  IF "requests" \notin modules
        THEN Checked(FALSE, e, <<head, "requests library not found. Run: uv sync">>)
        ELSE Checked(TRUE, e,
                     <<head, "requests library available",
                       IF "dotenv" \in modules
                       THEN "python-dotenv library available"
                       ELSE "python-dotenv not found (optional)">>)

\* load_dotenv(): the assignments of .env go to os.environ where the
\* variable is not set yet; a file that cannot be opened raises, a
\* directory is not taken for the file.
RECURSIVE LoadAssignments(_, _)
LoadAssignments(e, assignments) ==
    IF assignments = <<>> THEN e
    ELSE LET a == Head(assignments)
             e1 == IF a.name \in DOMAIN e /\ e[a.name] = None
                   THEN [e EXCEPT ![a.name] = Some(a.value)] ELSE e
         IN  LoadAssignments(e1, Tail(assignments))

load_dotenv(cwd, e) ==
    IF cwd.env.kind = "unreadable"
    THEN [raised |-> Some([type |-> "PermissionError", msg |-> "Permission denied: '.env'"]),
          environ |-> e]
    ELSE IF cwd.env.kind = "file"
    THEN [raised |-> None, environ |-> LoadAssignments(e, cwd.env.assignments)]
    ELSE [raised |-> None, environ |-> e]

\* Importing the package imports requests and then, where dotenv is there,
\* calls load_dotenv().
check_script(cwd, modules, e) ==
    LET head == "Checking main script..."
        failed(e1) == Checked(FALSE, e1,
                              <<head, "Error importing sglang_mistral package">>)
        loaded == load_dotenv(cwd, e)
    IN  IF "sglang_mistral" \notin modules \/ "requests" \notin modules
        THEN failed(e)
        ELSE IF "dotenv" \in modules /\ loaded.raised # None
        THEN failed(loaded.environ)
        ELSE Checked(TRUE,
                     IF "dotenv" \in modules THEN loaded.environ ELSE e,
                     <<head, "sglang_mistral package imports successfully",
                       "main function found", "SGLangMistralClient class found",
                       "create_message function found">>)

check_environment_variables(cwd, modules, e) ==
    LET head == "Checking environment variables..."
        loaded == IF "dotenv" \in modules THEN load_dotenv(cwd, e)
                  ELSE [raised |-> None, environ |-> e]
        e1 == loaded.environ
        shown == <<head, "SGLANG_HOST: " \o getenv(e1, "SGLANG_HOST", "localhost")>>
    IN  IF loaded.raised # None
        THEN [returned |-> None, raised |-> loaded.raised, environ |-> e1,
              stdout |-> <<head>>]
        ELSE IF TokenConfigured(e1)
        THEN Checked(TRUE, e1, Append(shown, "HF_TOKEN is configured"))
        ELSE Checked(FALSE, e1,
                     Append(shown, "HF_TOKEN not configured or using placeholder"))

\* checks = [check_env_file, check_dependencies, check_script,
\*           check_environment_variables]
checks ==
    <<"check_env_file", "check_dependencies", "check_script",
      "check_environment_variables">>

RunCheck(name, cwd, modules, e) ==
    CASE name = "check_env_file" -> check_env_file(cwd, modules, e)
      [] name = "check_dependencies" -> check_dependencies(cwd, modules, e)
      [] name = "check_script" -> check_script(cwd, modules, e)
      [] name = "check_environment_variables" ->
             check_environment_variables(cwd, modules, e)

\* Variant of all_passed_after that keeps the result of the latest check.
all_passed_after_LatestOnly(all_passed, result) == result

\* if not check(): all_passed = False
all_passed_after(all_passed, result) ==
    IF ~result THEN FALSE ELSE all_passed

(* The worlds the script runs in.                                          *)
SetupFiles ==
    {[kind |-> "absent"], [kind |-> "unreadable"], [kind |-> "directory"]}
        \cup {[kind |-> "file", assignments |-> <<a>>] :
                 a \in {[name |-> "HF_TOKEN", value |-> Placeholder],
                        [name |-> "SGLANG_HOST", value |-> "env-host"],
                        [name |-> "HF_TOKEN", value |-> "hf_file"]}}

(* One run of the script's main.                                           *)
InitSetup ==
    /\ env \in [HF_TOKEN : {None, Some(""), Some(Placeholder), Some("hf_global")},
                SGLANG_HOST : {None}, SGLANG_PORT : {None}]
    /\ client = None
    /\ http = <<>>
    /\ nHttp = 0
    /\ nCalls = 0
    /\ stderr = <<>>
    /\ last = [op |-> "none"]
    /\ heap = <<>>
    /\ history = <<>>
    /\ threads = <<>>
    /\ stdout = <<>>
    /\ \E cwd \in [example : BOOLEAN, env : SetupFiles],
          modules \in SUBSET {"requests", "dotenv", "sglang_mistral"} :
           main = [pc |-> "banner", cwd |-> cwd, modules |-> modules, i |-> 1,
                   all_passed |-> TRUE, started |-> <<>>, results |-> <<>>,
                   raised |-> None]

\* The banner, and all_passed = True.
SetupBanner ==
    /\ main.pc = "banner"
    /\ stdout' = stdout \o <<"SGLang Mistral Setup Verification",
                             "========================================">>
    /\ main' = [main EXCEPT !.pc = "loop", !.all_passed = TRUE]
    /\ UNCHANGED <<env, client, http, nHttp, nCalls, stderr, last, history,
                   threads, heap>>

\* One turn of `for check in checks'.
SetupCheck ==
    /\ main.pc = "loop"
    /\ LET name == checks[main.i]
           r == RunCheck(name, main.cwd, main.modules, env)
           started == [main EXCEPT !.started = Append(main.started, name)]
       IN  /\ env' = r.environ
           /\ stdout' = stdout \o r.stdout
           /\ IF r.raised # None
              THEN main' = [started EXCEPT !.pc = "done", !.raised = r.raised]
              ELSE main' = [started EXCEPT
                               !.results = Append(main.results, r.returned[1]),
                               !.all_passed =
                                   all_passed_after(main.all_passed, r.returned[1]),
                               !.i = main.i + 1,
                               !.pc = IF main.i = Len(checks) THEN "summary"
                                      ELSE "loop"]
    /\ UNCHANGED <<client, http, nHttp, nCalls, stderr, last, history, threads,
                   heap>>

\* The closing lines, and sys.exit(1) unless all checks passed.
SetupSummary ==
    /\ main.pc = "summary"
    /\ IF main.all_passed
       THEN /\ stdout' = stdout \o <<"========================================",
                                     "All checks passed! Your setup is ready.">>
            /\ main' = [main EXCEPT !.pc = "done"]
       ELSE /\ stdout' = stdout \o <<"========================================",
                                     "Some checks failed. Please fix the issues above.">>
            /\ main' = [main EXCEPT !.pc = "done",
                                    !.raised = Some([type |-> "SystemExit",
                                                     code |-> 1])]
    /\ UNCHANGED <<env, client, http, nHttp, nCalls, stderr, last, history,
                   threads, heap>>

NextSetup == SetupBanner \/ SetupCheck \/ SetupSummary

SpecSetup == InitSetup /\ [][NextSetup]_vars

---------------------------------------------------------------------------
(* message.py, with the lists as objects: a list is known by its identity  *)
(* (its place in heap), and appending to it changes it for everybody who   *)
(* holds it.                                                               *)

ListObject(owner, items) == [owner |-> owner, items |-> items]
Ref(id) == [ref |-> id]

\* Variant of create_message_obj that takes the URLs out of the list given.
create_message_obj_Consumes(h, text, image_urls_arg) ==
    LET image_urls == Bind(image_urls_arg, None)
        truthy == image_urls # None /\ h[image_urls[1].ref].items # <<>>
        content == Len(h) + 1
        h1 == Append(h, ListObject("create_message", <<>>))
        h2 == IF truthy
              THEN [h1 EXCEPT ![content].items =
                                  AppendImages(@, h1[image_urls[1].ref].items),
                              ![image_urls[1].ref].items = <<>>]
              ELSE h1
        h3 == [h2 EXCEPT ![content].items = Append(@, TextBlock(text))]
        message == [role |-> "user",
                    content |-> IF ~truthy THEN PyStr(text) ELSE Ref(content)]
    IN  [heap |-> Append(h3, ListObject("create_message", <<message>>)),
         returned |-> Ref(Len(h3) + 1)]

\* create_message on the heap h: `content = []' makes a new list, the loop
\* and the append change that list, and the return statement makes the
\* list that is returned.
create_message_obj(h, text, image_urls_arg) ==
    LET image_urls == Bind(image_urls_arg, None)
        truthy == image_urls # None /\ h[image_urls[1].ref].items # <<>>
        content == Len(h) + 1
        h1 == Append(h, ListObject("create_message", <<>>))
        h2 == IF truthy
              THEN [h1 EXCEPT ![content].items =
                                  AppendImages(@, h1[image_urls[1].ref].items)]
              ELSE h1
        h3 == [h2 EXCEPT ![content].items = Append(@, TextBlock(text))]
        message == [role |-> "user",
                    content |-> IF ~truthy THEN PyStr(text) ELSE Ref(content)]
    IN  [heap |-> Append(h3, ListObject("create_message", <<message>>)),
         returned |-> Ref(Len(h3) + 1)]

\* The value of the message list at ref, with the content list read from h.
Deref(h, ref) ==
    LET message == h[ref.ref].items[1]
    IN  << [role |-> message.role,
            content |-> IF "ref" \in DOMAIN message.content
                        THEN PyList(h[message.content.ref].items)
                        ELSE message.content] >>

\* The value of an image_urls argument, with its list read from h.
ArgValue(h, arg) ==
    IF arg = Omitted \/ arg.value = None THEN arg
    ELSE Arg(Some(h[arg.value[1].ref].items))

CallerLists(h) == {id \in 1..Len(h) : h[id].owner = "caller"}
HeapImageArgs(h) == {Omitted, Arg(None)} \cup {Arg(Some(Ref(id))) : id \in CallerLists(h)}

\* The caller makes a list of URLs.
HeapNewList ==
    /\ Cardinality(CallerLists(heap)) < MaxLists
    /\ \E urls \in {<<>>, <<"https://a/1.jpg">>,
                     <<"https://a/1.jpg", "https://a/2.jpg">>} :
           heap' = Append(heap, ListObject("caller", urls))
    /\ UNCHANGED <<env, client, http, nHttp, nCalls, stderr, last, history,
                   threads, main, stdout>>

\* The caller calls create_message, with one of its lists or without.
HeapCreateMessage ==
    /\ Len(history) < MaxHeapCalls
    /\ \E text \in {"", "Hello"}, image_urls \in HeapImageArgs(heap) :
           LET r == create_message_obj(heap, text, image_urls)
           IN  /\ heap' = r.heap
               /\ last' = [op |-> "create_message", text |-> text,
                           image_urls |-> image_urls, returned |-> r.returned]
               /\ history' = Append(history,
                                    [text |-> text,
                                     image_urls |-> ArgValue(heap, image_urls),
                                     result |-> Deref(r.heap, r.returned)])
    /\ UNCHANGED <<env, client, http, nHttp, nCalls, stderr, threads, main,
                   stdout>>

NextHeap == HeapNewList \/ HeapCreateMessage

SpecHeap == InitMessage /\ [][NextHeap]_vars

---------------------------------------------------------------------------
(* Properties of the message builder.                                      *)

IsCreateMessage == last.op = "create_message"
GivenUrls == Bind(last.image_urls, None)

\* C1: create_message(text), create_message(text, None) and
\* create_message(text, []) return exactly [{role: "user", content: text}]
\* with the bare text string as content, for every text, "" included.
TextOnlyIsBareString ==
    (IsCreateMessage /\ last.image_urls \in {Omitted, Arg(None), Arg(Some(<<>>))})
        => last.result = << [role |-> "user", content |-> PyStr(last.text)] >>

TextOnlyEmptyListReached ==
    /\ IsCreateMessage
    /\ last.text = ""
    /\ last.image_urls = Arg(Some(<<>>))
    /\ last.result[1].content = PyStr("")

\* C2: for a non-empty URL list the result is one user message whose content
\* is a list of len(urls)+1 blocks: the image block of urls[i] at index i, in
\* input order, and the text block with the text verbatim at the end.
ImagesThenText ==
    (IsCreateMessage /\ TruthyList(GivenUrls)) =>
        LET urls == GivenUrls[1]
            msg == last.result[1]
        IN  /\ Len(last.result) = 1
            /\ msg.role = "user"
            /\ DOMAIN msg = {"role", "content"}
            /\ DOMAIN msg.content = {"list"}
            /\ Len(msg.content.list) = Len(urls) + 1
            /\ \A i \in 1..Len(urls) :
                   msg.content.list[i] =
                       [type |-> "image_url", image_url |-> [url |-> urls[i]]]
            /\ msg.content.list[Len(urls) + 1] =
                   [type |-> "text", text |-> last.text]

ImagesThenTextReached ==
    /\ IsCreateMessage
    /\ last.text = ""
    /\ GivenUrls = Some(<<"https://a/2.jpg", "https://a/1.jpg">>)
    /\ Len(last.result[1].content.list) = 3
    /\ last.result[1].content.list[3].type = "text"

\* The URLs carried by the image blocks of a content list, in order.
BlockUrls(blocks) ==
    LET images == SelectSeq(blocks, LAMBDA b : b.type = "image_url")
    IN  [i \in 1..Len(images) |-> images[i].image_url.url]

Occurrences(seq, v) == Cardinality({i \in 1..Len(seq) : seq[i] = v})

\* C3: URLs pass through unchanged: each occurrence of a URL, duplicates and
\* empty strings included, has its own image block with that value, and a
\* list holding only empty-string URLs still gives block-list content.
UrlsPassThrough ==
    (IsCreateMessage /\ GivenUrls # None /\ GivenUrls[1] # <<>>) =>
        LET urls == GivenUrls[1]
            content == last.result[1].content
        IN  /\ DOMAIN content = {"list"}
            /\ BlockUrls(content.list) = urls
            /\ \A u \in Urls :
                   Occurrences(BlockUrls(content.list), u) = Occurrences(urls, u)

UrlsPassThroughReached ==
    /\ IsCreateMessage
    /\ GivenUrls = Some(<<"", "https://a/1.jpg", "">>)
    /\ Len(last.result[1].content.list) = 4
    /\ last.result[1].content.list[3] = ImageBlock("")

\* C4: determine_default_text(0) and determine_default_text(1) return
\* "What's in this image?"; every other count, negative ones included, gives
\* "I have {N} images. Please describe each image." with N in decimal.
DefaultTextByCount ==
    last.op = "determine_default_text" =>
        IF last.image_count \in {0, 1}
        THEN last.result = "What's in this image?"
        ELSE last.result = "I have " \o ToString(last.image_count)
                               \o " images. Please describe each image."

DefaultTextNegativeReached ==
    /\ last.op = "determine_default_text"
    /\ last.image_count = 0 - 11
    /\ last.result = "I have -11 images. Please describe each image."

---------------------------------------------------------------------------
(* Properties of the client's construction.                                *)

IsInit == last.op = "__init__"
HostGiven == Bind(last.host, None)
PortGiven == Bind(last.port, None)
ModelGiven == Bind(last.model, None)

\* C5: host and port are resolved independently as explicit argument, then
\* environment variable, then default: an explicitly supplied host string or
\* integer port is the client's field whatever the environment holds; with no
\* argument the environment value is used (the port as an integer); with
\* neither, base_url is "http://localhost:30000".
ExplicitHostPortWin ==
    IsInit =>
        /\ HostGiven # None /\ client # None => client[1].host = HostGiven[1]
        /\ PortGiven # None => client # None /\ client[1].port = PortGiven[1]
        /\ HostGiven = None /\ client # None =>
               client[1].host = IF env.SGLANG_HOST # None
                                THEN env.SGLANG_HOST[1] ELSE "localhost"
        /\ PortGiven = None /\ client # None =>
               client[1].port = IF env.SGLANG_PORT # None
                                THEN int(env.SGLANG_PORT[1]).value ELSE 30000
        /\ HostGiven = None /\ PortGiven = None /\ env.SGLANG_HOST = None
             /\ env.SGLANG_PORT = None =>
               client # None /\ client[1].base_url = "http://localhost:30000"

---------------------------------------------------------------------------
(* Properties of the client's operations.                                  *)

CompletionsUrl == client[1].base_url \o "/v1/chat/completions"
IsErrorStatus(outcome) ==
    IsResponse(outcome) /\ outcome.status_code \in 400..599
Is2xx(outcome) ==
    IsResponse(outcome) /\ outcome.status_code \in 200..299
IsTransportError(outcome) ==
    ~IsResponse(outcome) /\ outcome.exc.type \in
        {"ConnectionError", "Timeout", "RequestException"}

\* C7: after construction, whatever operations are called and however they
\* end, host, port, model and base_url do not change, and base_url is
\* "http://{host}:{port}".
ClientConfigFixed ==
    /\ [](/\ client # None
          /\ client[1].base_url =
                 "http://" \o client[1].host \o ":" \o ToString(client[1].port))
    /\ [][client' = client]_vars

ConfigAfterFailedCallsReached ==
    /\ nCalls >= 2
    /\ last.op = "make_request"
    /\ "model" \in DOMAIN last.kwargs
    /\ last.raised # None
    /\ client[1].base_url = "http://env-host:8080"
    /\ client[1].model = DefaultModel

\* The request make_request has sent, but for the value under "model".
PostedAsGiven ==
    /\ Len(http) = 1
    /\ DOMAIN http[1] = {"method", "url", "json"}
    /\ http[1].method = "POST"
    /\ http[1].url = CompletionsUrl
    /\ DOMAIN http[1].json = {"model", "messages", "max_tokens"} \cup DOMAIN last.kwargs
    /\ http[1].json["messages"] = last.messages
    /\ http[1].json["max_tokens"] =
           (IF last.max_tokens = Omitted THEN 300 ELSE last.max_tokens.value)
    /\ \A k \in DOMAIN last.kwargs : http[1].json[k] = last.kwargs[k]

ParsedReturned ==
    (Is2xx(last.outcome) /\ json_loads(last.outcome.text) # None) =>
        /\ last.raised = None
        /\ last.returned = json_loads(last.outcome.text)

\* C8 as stated: the body's model is the client's model, in every call.
RequestBodyModelIsClients ==
    last.op = "make_request" =>
        /\ PostedAsGiven
        /\ http[1].json["model"] = client[1].model
        /\ ParsedReturned

\* C8, amended: make_request POSTs to "{base_url}/v1/chat/completions" a body
\* holding messages, max_tokens (300 when omitted), every extra keyword
\* parameter with its value, and model = the client's model unless an extra
\* parameter is named "model"; no other keys; a 2xx response with a JSON
\* body makes it return the parsed body.
RequestBodyModelUnlessOverridden ==
    last.op = "make_request" =>
        /\ PostedAsGiven
        /\ "model" \notin DOMAIN last.kwargs =>
               http[1].json["model"] = client[1].model
        /\ ParsedReturned

RequestWithKwargsReached ==
    /\ last.op = "make_request"
    /\ last.kwargs = [temperature |-> 1]
    /\ last.max_tokens = Omitted
    /\ last.outcome = Response(200, "{\"choices\": []}")
    /\ last.returned = Some(PyDict([choices |-> PyList(<<>>)]))
    /\ http[1].json = [model |-> client[1].model, messages |-> last.messages,
                       max_tokens |-> 300, temperature |-> 1]

\* The failure is raised to the caller, nothing is returned, and the last
\* line on stderr is the diagnostic of the exception raised.
RaisedAfterDiagnostic ==
    /\ last.raised # None
    /\ last.returned = None
    /\ ~IsResponse(last.outcome) => last.raised = Some(last.outcome.exc)
    /\ IsResponse(last.outcome) => last.raised[1].type = "HTTPError"
    /\ stderr # <<>>
    /\ stderr[Len(stderr)] =
           "Error making request to " \o CompletionsUrl \o ": " \o last.raised[1].msg

\* C9 as stated: a transport error or any status outside 2xx is raised.
NonSuccessStatusRaises ==
    (last.op = "make_request"
        /\ (IsTransportError(last.outcome)
              \/ (IsResponse(last.outcome) /\ ~Is2xx(last.outcome))))
        => RaisedAfterDiagnostic

\* C9, amended: when the POST of make_request fails with a transport error or
\* the response has a 4xx or 5xx status, that exception is raised to the
\* caller after a diagnostic is written to stderr, and nothing is returned.
ErrorStatusRaises ==
    (last.op = "make_request"
        /\ (IsTransportError(last.outcome) \/ IsErrorStatus(last.outcome)))
        => RaisedAfterDiagnostic

ErrorStatusRaisedReached ==
    /\ last.op = "make_request"
    /\ last.outcome = Response(500, "Internal Server Error")
    /\ last.raised # None
    /\ last.raised[1].type = "HTTPError"
    /\ Len(stderr) >= 1

\* What make_request does with the arguments and the outcome of the latest
\* call.
SameCallOfMakeRequest ==
    make_request(client[1], last.messages, last.max_tokens, last.kwargs,
                 last.outcome)

\* A response that passes the status check with a body that is not JSON.
UnparsableBody(outcome) ==
    /\ IsResponse(outcome)
    /\ ~IsErrorStatus(outcome)
    /\ json_loads(outcome.text) = None

\* C10 as stated: make_request_raw sends what make_request sends and raises
\* exactly when make_request raises, with the same exception; on success it
\* returns the body text.
RawRaisesWhenRequestRaises ==
    last.op = "make_request_raw" =>
        /\ http = SameCallOfMakeRequest.http
        /\ last.raised = SameCallOfMakeRequest.raised
        /\ last.raised = None => last.returned = Some(PyStr(last.outcome.text))

\* C10, amended: make_request_raw sends the same URL and body as
\* make_request and, for every outcome but a response that passes the status
\* check with a body that is not JSON, raises exactly when make_request
\* raises, with the same exception; for such a response make_request raises
\* the decoding error and make_request_raw returns; whenever it returns, it
\* returns the body text.
RawRaisesWhenRequestRaisesButDecoding ==
    last.op = "make_request_raw" =>
        /\ http = SameCallOfMakeRequest.http
        /\ IF UnparsableBody(last.outcome)
           THEN /\ last.raised = None
                /\ SameCallOfMakeRequest.raised # None
                /\ SameCallOfMakeRequest.raised[1].type = "JSONDecodeError"
           ELSE last.raised = SameCallOfMakeRequest.raised
        /\ last.raised = None => last.returned = Some(PyStr(last.outcome.text))

RawErrorRaisedReached ==
    /\ last.op = "make_request_raw"
    /\ last.outcome = Response(404, "[]")
    /\ last.raised # None
    /\ last.raised[1].type = "HTTPError"
    /\ last.returned = None

\* The GET that health_check has issued.
HealthProbed ==
    /\ Len(http) = 1
    /\ http[1].method = "GET"
    /\ http[1].url = client[1].base_url \o "/health"

\* C11 as stated: health_check never raises; it returns true exactly for a
\* response with status 200 and false for every other status and for every
\* exception raised by the call.
HealthCheckNeverRaises ==
    last.op = "health_check" =>
        /\ HealthProbed
        /\ last.raised = None
        /\ last.returned =
               Some(IsResponse(last.outcome) /\ last.outcome.status_code = 200)

\* C11, amended: health_check issues a GET to "{base_url}/health"; it returns
\* true exactly for a response with status 200, and false for every other
\* status (other 2xx included) and for every RequestException raised by the
\* call (connection error, timeout, any other failure the HTTP library
\* reports); an exception that is no RequestException, such as a
\* KeyboardInterrupt while it waits, is raised to the caller.
HealthCheckCatchesRequestExceptions ==
    last.op = "health_check" =>
        /\ HealthProbed
        /\ IF IsResponse(last.outcome) \/ IsTransportError(last.outcome)
           THEN /\ last.raised = None
                /\ last.returned =
                       Some(IsResponse(last.outcome)
                                /\ last.outcome.status_code = 200)
           ELSE /\ last.raised = Some(last.outcome.exc)
                /\ last.returned = None

HealthCheckOther2xxReached ==
    /\ last.op = "health_check"
    /\ last.outcome = Response(204, "")
    /\ last.raised = None
    /\ last.returned = Some(FALSE)

---------------------------------------------------------------------------
(* Properties of sequences of calls.                                       *)

\* C12: each call of make_request, make_request_raw or health_check issues
\* exactly one HTTP call and has returned or raised when the next one starts;
\* a failure is not followed by a second attempt, so the HTTP calls issued
\* are as many as the operations called.
OneHttpCallPerOperation ==
    /\ nHttp = nCalls
    /\ Len(history) = nCalls
    /\ \A i \in 1..Len(history) :
           /\ Len(history[i].sent) = 1
           /\ (history[i].raised = None) # (history[i].returned = None)

NoRetryAfterFailuresReached ==
    /\ Len(history) >= 2
    /\ history[1].op = "make_request"
    /\ history[1].raised = Some([type |-> "ConnectionError",
                                 msg |-> "Connection failed"])
    /\ history[2].op = "health_check"
    /\ history[2].returned = Some(FALSE)
    /\ nHttp = 2

\* The client as its constructor left it, from the three resolved fields.
AsConstructed ==
    [host |-> client[1].host, port |-> client[1].port,
     model |-> client[1].model,
     base_url |-> "http://" \o client[1].host \o ":" \o ToString(client[1].port)]

\* What the call h does when it is the first call on the client.
AsFirstCall(h) ==
    CASE h.op = "make_request" ->
             make_request(AsConstructed, h.messages, h.max_tokens, h.kwargs,
                          h.outcome)
      [] h.op = "make_request_raw" ->
             make_request_raw(AsConstructed, h.messages, h.max_tokens,
                              h.kwargs, h.outcome)
      [] h.op = "health_check" -> health_check(AsConstructed, h.outcome)

\* C20: what a call sends, whether it is attempted and how it ends do not
\* depend on how the earlier calls on the client ended; after a health_check
\* that returned false a make_request is still sent and returns the server's
\* response.
CallsIndependentOfEarlierOnes ==
    \A i \in 1..Len(history) :
        /\ history[i].sent = AsFirstCall(history[i]).http
        /\ history[i].raised = AsFirstCall(history[i]).raised
        /\ history[i].returned = AsFirstCall(history[i]).returned
        /\ (/\ i > 1
            /\ history[i - 1].op = "health_check"
            /\ history[i - 1].returned = Some(FALSE)
            /\ history[i].op = "make_request"
            /\ history[i].outcome = Response(200, "[]"))
               => /\ Len(history[i].sent) = 1
                  /\ history[i].sent[1].method = "POST"
                  /\ history[i].returned = Some(PyList(<<>>))

RequestAfterFailedHealthCheckReached ==
    /\ Len(history) >= 2
    /\ history[1].op = "health_check"
    /\ history[1].outcome = Response(500, "Internal Server Error")
    /\ history[1].returned = Some(FALSE)
    /\ history[2].op = "make_request"
    /\ history[2].returned = Some(PyList(<<>>))

---------------------------------------------------------------------------
(* Properties of the preparation of the request in cli.py.                 *)

IsDetermine == last.op = "determine_text_and_images"

\* C13: a text argument that is not None, "" included, gives (that text, the
\* image argument unchanged), whether the image argument is None, [] or a
\* non-empty list: no default text, no fallback image.
ExplicitTextWins ==
    (IsDetermine /\ last.text_arg # None) =>
        last.result = <<last.text_arg[1], last.image_urls_arg>>

EmptyTextKeptReached ==
    /\ IsDetermine
    /\ last.text_arg = Some("")
    /\ last.image_urls_arg = Some(<<>>)
    /\ last.result = <<"", Some(<<>>)>>

\* C14: with text None and a non-empty image list the text is
\* determine_default_text(number of URLs) and the images are the given list,
\* unchanged and in the same order.
DefaultTextForImages ==
    (IsDetermine /\ last.text_arg = None /\ last.image_urls_arg # None
        /\ last.image_urls_arg[1] # <<>>) =>
        /\ last.result[1] = determine_default_text(Len(last.image_urls_arg[1]))
        /\ last.result[1] =
               (IF Len(last.image_urls_arg[1]) = 1 THEN "What's in this image?"
                ELSE "I have " \o ToString(Len(last.image_urls_arg[1]))
                         \o " images. Please describe each image.")
        /\ last.result[2] = last.image_urls_arg

DefaultTextForTwoImagesReached ==
    /\ IsDetermine
    /\ last.text_arg = None
    /\ last.image_urls_arg = Some(<<"https://a/2.jpg", "https://a/1.jpg">>)
    /\ last.result = <<"I have 2 images. Please describe each image.",
                       Some(<<"https://a/2.jpg", "https://a/1.jpg">>)>>

\* C15: with text None and no images (None or []) the result is the text
\* "What's in this image?" and a list of exactly one element, the hardcoded
\* fallback image URL.
FallbackTextAndImage ==
    (IsDetermine /\ last.text_arg = None
        /\ last.image_urls_arg \in {None, Some(<<>>)}) =>
        /\ last.result[1] = "What's in this image?"
        /\ last.result[2] # None
        /\ Len(last.result[2][1]) = 1
        /\ last.result[2][1][1] =
               "https://github.com/alex-crouch/resources/blob/main/zsh-diskfree/images/servingsuggestion.gif?raw=true"

FallbackForEmptyListReached ==
    /\ IsDetermine
    /\ last.text_arg = None
    /\ last.image_urls_arg = Some(<<>>)
    /\ last.result[2] = Some(<<FallbackImageUrl>>)

\* Number of values in the first k groups.
RECURSIVE ValuesBefore(_, _)
ValuesBefore(groups, k) ==
    IF k = 0 THEN 0 ELSE ValuesBefore(groups, k - 1) + Len(groups[k])

\* C16: the nested --image-url argument is flattened into one sequence:
\* groups in order of occurrence, values in the order given within a group,
\* nothing dropped, added or reordered; one flag per URL and all URLs after
\* one flag give the same sequence.
FlattenKeepsOrder ==
    (last.op = "flattened_image_urls" /\ last.image_url # None) =>
        LET groups == last.image_url[1]
            flat == last.result[1]
        IN  /\ last.result # None
            /\ Len(flat) = ValuesBefore(groups, Len(groups))
            /\ \A k \in 1..Len(groups) : \A j \in 1..Len(groups[k]) :
                   flat[ValuesBefore(groups, k - 1) + j] = groups[k][j]
            /\ flat # <<>> =>
                   /\ flattened_image_urls(Some(<<flat>>)) = Some(flat)
                   /\ flattened_image_urls(
                          Some([i \in 1..Len(flat) |-> <<flat[i]>>])) = Some(flat)

FlattenTwoGroupsReached ==
    /\ last.op = "flattened_image_urls"
    /\ last.image_url = Some(<< <<"https://a/2.jpg", "">>, <<"https://a/1.jpg">> >>)
    /\ last.result = Some(<<"https://a/2.jpg", "", "https://a/1.jpg">>)

---------------------------------------------------------------------------
(* Properties of cli.main.                                                 *)

\* The exit status of the process: sys.exit(main()) for a main that
\* returned, the code of the SystemExit that left main otherwise.
ExitStatus ==
    IF main.returned # None THEN main.returned[1] ELSE main.raised[1].code

ResultPrinted ==
    /\ main.response # None
    /\ main.caught = None
    /\ Len(stdout) = 1

ErrorReported ==
    /\ main.caught # None
    /\ main.caught[1].type # "KeyboardInterrupt"
    /\ stderr # <<>>
    /\ stderr[Len(stderr)] = "Error: " \o main.caught[1].msg

InterruptReported ==
    /\ main.caught # None
    /\ main.caught[1].type = "KeyboardInterrupt"
    /\ stderr # <<>>
    /\ stderr[Len(stderr)] = "\nInterrupted by user"

\* C17 (as stated): every run of main ends with exit code 0 (the request
\* succeeded and its result was printed), 1 (an exception was caught and
\* "Error: ..." written to stderr) or 130 (interrupted), at whatever step
\* the run ends, argument parsing included.
ExitCodeOneOfThree ==
    main.pc = "done" =>
        /\ ExitStatus \in {0, 1, 130}
        /\ ExitStatus = 0 => ResultPrinted
        /\ ExitStatus = 1 => ErrorReported
        /\ ExitStatus = 130 => InterruptReported

\* C17 (amended): a run in which parse_args returned ends with main
\* returning 0 exactly when the request succeeded and its result was
\* printed, 1 exactly when an exception other than KeyboardInterrupt was
\* caught (with "Error: <message>" last on stderr) and 130 exactly when
\* KeyboardInterrupt was caught (with "\nInterrupted by user" last on
\* stderr); a run that ends in parse_args ends with argparse's SystemExit,
\* code 2 or 0, without any request and without an "Error: ..." line.
ExitCodeAfterParsing ==
    main.pc = "done" =>
        IF main.args # None
        THEN /\ main.raised = None
             /\ main.returned # None
             /\ main.returned[1] \in {0, 1, 130}
             /\ main.returned[1] = 0 <=> ResultPrinted
             /\ main.returned[1] = 1 <=> ErrorReported
             /\ main.returned[1] = 130 <=> InterruptReported
        ELSE /\ main.returned = None
             /\ main.caught = None
             /\ main.raised # None
             /\ main.raised[1].type = "SystemExit"
             /\ main.raised[1].code \in {0, 2}
             /\ http = <<>>
             /\ client = None

\* A run interrupted while the request waits for the server.
InterruptedRequestReached ==
    /\ main.pc = "done"
    /\ main.outcome = Some(Interrupted)
    /\ main.returned = Some(130)
    /\ Len(http) = 1

\* What the two printed forms of the parsed bodies look like.
PrettyJson(text) ==
    CASE text = "{\"choices\": []}" -> "{\n  \"choices\": []\n}"
      [] text = "[]" -> "[]"

PlainForm(text) ==
    CASE text = "{\"choices\": []}" -> "{'choices': []}"
      [] text = "[]" -> "[]"

\* C18: with --raw main calls make_request_raw and prints the response
\* text; without --raw it calls make_request and prints the parsed result
\* as JSON indented by two when --json is set, as its str() otherwise.
OutputByFlags ==
    /\ main.called # None =>
           main.called[1] = IF main.args[1].raw THEN "make_request_raw"
                            ELSE "make_request"
    /\ (main.pc = "done" /\ main.returned = Some(0)) =>
           LET args == main.args[1]
               text == main.outcome[1].text
           IN  stdout = << IF args.raw THEN text
                           ELSE IF args.json THEN PrettyJson(text)
                           ELSE PlainForm(text) >>

\* A run with --json and without --raw that printed a JSON object.
PrettyJsonPrintedReached ==
    /\ main.pc = "done"
    /\ main.returned = Some(0)
    /\ main.args[1].json
    /\ ~main.args[1].raw
    /\ main.outcome[1].text = "{\"choices\": []}"

---------------------------------------------------------------------------
(* Properties of concurrent calls.                                         *)

\* The call of a frame, made alone on the client self with the outcome o.
Alone(self, frame, o) ==
    CASE frame.op = "make_request" ->
             make_request(self, frame.messages, frame.max_tokens, frame.kwargs, o)
      [] frame.op = "make_request_raw" ->
             make_request_raw(self, frame.messages, frame.max_tokens, frame.kwargs, o)
      [] frame.op = "health_check" -> health_check(self, o)

SentBy(t) == SelectSeq(http, LAMBDA h : h.thread = t)

Count(seq, x) == Len(SelectSeq(seq, LAMBDA y : y = x))

\* The stderr lines the finished calls write when made alone on self.
AloneLines(self) ==
    UNION {{Alone(self, threads[t], threads[t].outcome[1]).stderr[i] :
               i \in 1..Len(Alone(self, threads[t], threads[t].outcome[1]).stderr)} :
           t \in {u \in Threads : threads[u].pc = "done"}}

\* C19: under every interleaving of calls from several threads on one
\* client, the client stays as constructed, every call sends exactly the one
\* request it sends when made alone with its arguments, and ends with the
\* result or exception (and stderr line) it has alone for its own outcome.
ConcurrentCallsAsAlone ==
    \E self \in ThreadClients :
        /\ client = Some(self)
        /\ \A t \in Threads :
               /\ threads[t].pc \in {"idle", "data", "send"} => SentBy(t) = <<>>
               /\ threads[t].pc \in {"wait", "done"} =>
                      /\ Len(SentBy(t)) = 1
                      /\ <<SentBy(t)[1].request>> =
                             Alone(self, threads[t], Response(200, "[]")).http
               /\ threads[t].pc = "done" =>
                      LET alone == Alone(self, threads[t], threads[t].outcome[1])
                      IN  /\ threads[t].raised = alone.raised
                          /\ threads[t].returned = alone.returned
                          /\ \A i \in 1..Len(alone.stderr) :
                                 Count(stderr, alone.stderr[i]) =
                                     Cardinality({u \in Threads :
                                         /\ threads[u].pc = "done"
                                         /\ Alone(self, threads[u],
                                                  threads[u].outcome[1]).stderr
                                                = alone.stderr})
        /\ \A i \in 1..Len(stderr) : stderr[i] \in AloneLines(self)

\* Two threads have finished their calls; the call that overrides the model
\* sent first and returned, the other one sent second and raised.
InterleavedCallsReached ==
    /\ threads[1].pc = "done"
    /\ threads[2].pc = "done"
    /\ threads[1].op = "make_request"
    /\ threads[1].kwargs = <<>>
    /\ threads[2].kwargs # <<>>
    /\ http[1].thread = 2
    /\ http[2].thread = 1
    /\ threads[1].raised # None
    /\ threads[2].returned # None

\* The request main has issued.
MainSent == http[1]

UserMessage(content) == << [role |-> "user", content |-> content] >>

\* C21: the messages main passes to the client are create_message of what
\* determine_text_and_images gives for the text argument and the flattened
\* image URLs, and max_tokens is the parsed --max-tokens: text without
\* images gives the bare string (also ""), images without text give the
\* image blocks and the default text for their number, no arguments give
\* the fallback image block and "What's in this image?".
MessagesFromArguments ==
    main.called # None =>
        LET args == main.args[1]
            flat == flattened_image_urls(args.image_url)
            chosen == determine_text_and_images(args.text, flat)
        IN  /\ Len(http) = 1
            /\ MainSent.json.messages = create_message(chosen[1], Arg(chosen[2]))
            /\ MainSent.json.max_tokens = args.max_tokens
            /\ (args.text # None /\ args.image_url = None) =>
                   MainSent.json.messages = UserMessage(PyStr(args.text[1]))
            /\ (args.text = None
                    /\ args.image_url = Some(<< <<"https://a/1.jpg">>,
                                                <<"https://a/2.jpg">> >>)) =>
                   MainSent.json.messages =
                       UserMessage(PyList(
                           << ImageBlock("https://a/1.jpg"),
                              ImageBlock("https://a/2.jpg"),
                              TextBlock("I have 2 images. Please describe each image.") >>))
            /\ (args.text = None /\ args.image_url = None) =>
                   MainSent.json.messages =
                       UserMessage(PyList(
                           << ImageBlock("https://github.com/alex-crouch/resources/blob/main/zsh-diskfree/images/servingsuggestion.gif?raw=true"),
                              TextBlock("What's in this image?") >>))

\* A run without --text and without --image-url, with --max-tokens 500, has
\* issued its request.
NoArgumentsRequestReached ==
    /\ main.called # None
    /\ main.args[1].text = None
    /\ main.args[1].image_url = None
    /\ main.args[1].max_tokens = 500
    /\ Len(http) = 1

\* C22: main constructs the client with the parsed host, port and model,
\* None for a flag not given; what the fields become where a flag is not
\* given is the constructor's doing (environment for host and port, the
\* built-in default otherwise).
ClientFromParsedArguments ==
    main.kwargs # None =>
        LET args == main.args[1]
        IN  /\ main.kwargs[1] = [host |-> args.host, port |-> args.port,
                                 model |-> args.model]
            /\ client # None =>
                   /\ client[1].host =
                          IF args.host # None THEN args.host[1]
                          ELSE IF env.SGLANG_HOST # None THEN env.SGLANG_HOST[1]
                          ELSE "localhost"
                   /\ client[1].port =
                          IF args.port # None THEN args.port[1]
                          ELSE IF env.SGLANG_PORT # None THEN 8080
                          ELSE 30000
                   /\ client[1].model =
                          IF args.model # None THEN args.model[1]
                          ELSE "OPEA/Mistral-Small-3.1-24B-Instruct-2503-int4-AutoRound-awq-sym"

\* A run without --host in an environment that sets SGLANG_HOST has
\* constructed its client.
ClientHostFromEnvironmentReached ==
    /\ main.kwargs # None
    /\ main.args[1].host = None
    /\ env.SGLANG_HOST = Some("env-host")
    /\ client # None
    /\ client[1].host = "env-host"

---------------------------------------------------------------------------
(* Properties of calls with keyword arguments.                             *)

\* C24: in a call of make_request or make_request_raw the extra keyword
\* parameters are merged last: a keyword "model" replaces the client's model
\* in the body sent while the client's model stays as it was; keywords
\* "messages" and "max_tokens" are the parameters of the operation and never
\* reach the extra parameters: max_tokens is the parameter's value, and a
\* second value for messages is refused before anything is sent.
KwargsMergedLast ==
    [][nCalls' = nCalls + 1 =>
          /\ client' = client
          /\ IF "messages" \in DOMAIN last'.keywords
             THEN /\ http' = <<>>
                  /\ last'.raised # None
                  /\ last'.raised[1].type = "TypeError"
             ELSE /\ Len(http') = 1
                  /\ DOMAIN http'[1].json =
                         {"model", "messages", "max_tokens"}
                             \cup DOMAIN last'.keywords
                  /\ http'[1].json["model"] =
                         IF "model" \in DOMAIN last'.keywords
                         THEN last'.keywords.model ELSE client[1].model
                  /\ http'[1].json["messages"] = last'.messages
                  /\ http'[1].json["max_tokens"] =
                         IF "max_tokens" \in DOMAIN last'.keywords
                         THEN last'.keywords.max_tokens ELSE 300
                  /\ \A k \in DOMAIN last'.keywords \ {"max_tokens", "model"} :
                         http'[1].json[k] = last'.keywords[k]]_vars

\* make_request_raw has sent a body with the model given as a keyword, and
\* the client still has its own model.
ModelOverriddenInBodyReached ==
    /\ last.op = "make_request_raw"
    /\ DOMAIN last.keywords = {"model", "temperature"}
    /\ Len(http) = 1
    /\ http[1].json["model"] = "other-model"
    /\ client[1].model # "other-model"

---------------------------------------------------------------------------
(* Properties of waiting calls.                                            *)

WaitsOnSilentServer(ops) ==
    /\ last.op \in ops
    /\ last.pc = "wait"
    /\ ~last.server.responds

\* C23: the POST of make_request and make_request_raw has no timeout, the
\* GET of health_check has one of 5 seconds; while the server never
\* responds, health_check eventually returns False, and a request operation
\* stays waiting: it never returns and never raises.
OnlyHealthCheckBoundsItsWait ==
    /\ [](last.op \in {"make_request", "make_request_raw"} =>
              "timeout" \notin DOMAIN http[1])
    /\ [](last.op = "health_check" =>
              /\ "timeout" \in DOMAIN http[1]
              /\ http[1].timeout = 5)
    /\ [](WaitsOnSilentServer({"health_check"}) =>
              <>(/\ last.op = "health_check"
                 /\ last.pc = "done"
                 /\ ~last.server.responds
                 /\ last.returned = Some(FALSE)))
    /\ [](WaitsOnSilentServer({"make_request", "make_request_raw"}) =>
              [](/\ last.op \in {"make_request", "make_request_raw"}
                 /\ last.pc = "wait"
                 /\ last.raised = None
                 /\ last.returned = None))

\* health_check has given up on a server that never responds.
HealthCheckTimedOutReached ==
    /\ last.op = "health_check"
    /\ last.pc = "done"
    /\ ~last.server.responds
    /\ last.waited = 5
    /\ last.returned = Some(FALSE)

\* --image-url was given, each time without a value.
OnlyEmptyGroups(args) ==
    /\ args.image_url # None
    /\ \A i \in 1..Len(args.image_url[1]) : args.image_url[1][i] = <<>>

\* C25: when every occurrence of --image-url has an empty group of values,
\* the flattened sequence is the empty list, not None; without --text main
\* then sends the fallback image and the default text, with --text a message
\* whose content is the bare text.
EmptyImageUrlIsEmptyList ==
    (main.args # None /\ OnlyEmptyGroups(main.args[1])) =>
        /\ main.flattened_image_urls # None =>
               main.flattened_image_urls[1] = Some(<<>>)
        /\ main.called # None =>
               http[1].json.messages =
                   IF main.args[1].text = None
                   THEN UserMessage(PyList(
                            << ImageBlock("https://github.com/alex-crouch/resources/blob/main/zsh-diskfree/images/servingsuggestion.gif?raw=true"),
                               TextBlock("What's in this image?") >>))
                   ELSE UserMessage(PyStr(main.args[1].text[1]))

\* --image-url was given twice without values and no --text: the request
\* with the fallback image has been issued.
EmptyImageUrlFallbackReached ==
    /\ main.called # None
    /\ main.args[1].image_url = Some(<< <<>>, <<>> >>)
    /\ main.args[1].text = None
    /\ main.flattened_image_urls = Some(Some(<<>>))
    /\ main.image_urls = Some(Some(<<FallbackImageUrl>>))

\* SGLANG_PORT is set to a text that is no integer.
InvalidEnvPort == env.SGLANG_PORT = Some(<<"a", "b", "c">>)

\* C26: with SGLANG_PORT no integer and no --port, the construction of the
\* client fails (no fallback to 30000): main catches the error, reports it,
\* returns 1, and no HTTP request is issued; with a non-zero --port the
\* variable is not parsed and the client gets the port given.
InvalidEnvPortFailsConstruction ==
    (InvalidEnvPort /\ main.kwargs # None) =>
        IF main.args[1].port = None
        THEN /\ client = None
             /\ main.pc = "done"
             /\ main.caught # None
             /\ main.caught[1].type = "ValueError"
             /\ main.returned = Some(1)
             /\ stderr = <<"Error: " \o main.caught[1].msg>>
             /\ stdout = <<>>
             /\ http = <<>>
             /\ nHttp = 0
        ELSE /\ main.args[1].port[1] # 0
             /\ client # None
             /\ client[1].port = main.args[1].port[1]
             /\ main.caught # None => main.caught[1].type # "ValueError"

\* A run without --port under an invalid SGLANG_PORT has ended.
InvalidEnvPortRunReached ==
    /\ InvalidEnvPort
    /\ main.pc = "done"
    /\ main.kwargs # None
    /\ main.args[1].port = None
    /\ main.returned = Some(1)

\* The steps of main, in the order of the code.
MainStepOrder ==
    <<"client", "flatten", "determine", "create_message", "request", "print">>

StepIndex(pc) == CHOOSE i \in 1..Len(MainStepOrder) : MainStepOrder[i] = pc

\* What the steps have produced so far, in the order of MainStepOrder.
StepResults ==
    <<client # None, main.flattened_image_urls # None,
      main.text_message # None /\ main.image_urls # None,
      main.messages # None, main.called # None, stdout # <<>> >>

\* C27: in a run of main the steps happen in the order construct client,
\* flatten, choose text and images, build message, request, print: a step
\* starts only after the one before it and every result is there only when
\* the earlier ones are; at most one request operation is called, once;
\* with --raw and --json it is make_request_raw and the raw text is printed;
\* and when a step up to the request raised, stdout stays empty.
MainStepsInOrder ==
    /\ [](main.args # None =>
             /\ \A i \in 2..Len(StepResults) :
                    StepResults[i] => StepResults[i - 1]
             /\ main.pc \in {"client", "flatten", "determine", "create_message",
                             "request", "print"} =>
                    /\ \A i \in 1..Len(StepResults) :
                           StepResults[i] <=> i < StepIndex(main.pc)
             /\ nCalls <= 1
             /\ Len(http) <= 1
             /\ Len(stdout) <= 1
             /\ main.called # None => (nCalls = 1 /\ Len(http) = 1)
             /\ (main.args[1].raw /\ main.args[1].json /\ main.called # None) =>
                    /\ main.called = Some("make_request_raw")
                    /\ stdout # <<>> => stdout = <<main.outcome[1].text>>
             /\ (main.caught # None /\ main.response = None) => stdout = <<>>)
    /\ [][(main.args # None /\ main'.pc # main.pc) =>
             \/ main'.pc = "done"
             \/ StepIndex(main'.pc) = StepIndex(main.pc) + 1]_vars

\* A run with --raw and --json has printed the raw text.
RawAndJsonPrintedReached ==
    /\ main.pc = "done"
    /\ main.returned = Some(0)
    /\ main.args[1].raw
    /\ main.args[1].json
    /\ main.called = Some("make_request_raw")
    /\ stdout = <<"{\"choices\": []}">>

\* The request operation called by main raised an exception that main's
\* `except Exception' caught.
RequestFailedInMain ==
    /\ main.pc = "done"
    /\ main.called # None
    /\ main.response = None
    /\ main.caught # None
    /\ main.caught[1].type # "KeyboardInterrupt"

\* A step before the request raised an exception that main's
\* `except Exception' caught.
FailedBeforeRequest ==
    /\ main.pc = "done"
    /\ main.called = None
    /\ main.caught # None
    /\ main.caught[1].type # "KeyboardInterrupt"

\* C29: a failure of make_request or make_request_raw inside main is
\* reported on stderr twice, first by the client ("Error making request to
\* {url}: ...") and then by main ("Error: ..."), and main returns 1; a
\* failure before the request is reported once, by main.
RequestFailureReportedTwice ==
    /\ RequestFailedInMain =>
           /\ stderr = <<"Error making request to " \o http[1].url \o ": "
                             \o main.caught[1].msg,
                         "Error: " \o main.caught[1].msg>>
           /\ http[1].url = client[1].base_url \o "/v1/chat/completions"
           /\ main.returned = Some(1)
    /\ FailedBeforeRequest =>
           /\ stderr = <<"Error: " \o main.caught[1].msg>>
           /\ main.returned = Some(1)

\* A request that ended with status 500 has been reported by the client and
\* by main.
ServerErrorReportedTwiceReached ==
    /\ RequestFailedInMain
    /\ main.outcome = Some(Response(500, "Internal Server Error"))
    /\ Len(stderr) = 2

---------------------------------------------------------------------------
(* Properties of setup-check.py.                                           *)

\* The exit status of the script: 0 when main returned, 1 for sys.exit(1)
\* and for an exception that nothing caught.
SetupExitStatus == IF main.raised = None THEN 0 ELSE 1

IsPrefix(p, q) == Len(p) <= Len(q) /\ \A i \in 1..Len(p) : p[i] = q[i]

FourChecks ==
    <<"check_env_file", "check_dependencies", "check_script",
      "check_environment_variables">>

\* C30: main runs the four checks in the order environment file,
\* dependencies, package import, environment variables, each of them also
\* after an earlier one returned False; it exits with status 1 exactly when
\* some check returned False, and returns normally otherwise.
SetupRunsAllChecks ==
    /\ IsPrefix(main.started, FourChecks)
    /\ Len(main.results) <= Len(main.started)
    /\ main.pc \in {"summary", "done"} => main.started = FourChecks
    /\ main.pc = "done" =>
           /\ SetupExitStatus = 1 <=>
                  \E i \in 1..Len(main.results) : ~main.results[i]
           /\ SetupExitStatus = 0 <=>
                  /\ main.results = <<TRUE, TRUE, TRUE, TRUE>>
                  /\ main.raised = None
           /\ Len(main.results) >= 2 =>
                  main.results[2] = ("requests" \in main.modules)

\* The first check failed, the other three ran and passed, and the script
\* exited with status 1.
ChecksRunAfterFailureReached ==
    /\ main.pc = "done"
    /\ main.results = <<FALSE, TRUE, TRUE, TRUE>>
    /\ main.started = FourChecks
    /\ SetupExitStatus = 1

---------------------------------------------------------------------------
(* Properties of create_message on list objects.                           *)

\* The list objects a message list at ref is made of: itself and, where the
\* content is a list, the content list.
ObjectsOf(h, ref) ==
    {ref.ref} \cup
        (IF "ref" \in DOMAIN h[ref.ref].items[1].content
         THEN {h[ref.ref].items[1].content.ref} ELSE {})

\* C28: create_message leaves every list that exists when it is called as
\* it is, the URL list passed to it included; the list it returns and the
\* content list in it are new objects; the value returned is the one the
\* arguments' values determine, so calls with equal arguments return equal
\* results whatever was called in between.
CreateMessageIsPure ==
    /\ [][Len(history') = Len(history) + 1 =>
             /\ Len(heap') > Len(heap)
             /\ \A id \in 1..Len(heap) : heap'[id] = heap[id]
             /\ \A id \in ObjectsOf(heap', last'.returned) : id > Len(heap)
             /\ history'[Len(history')].result =
                    create_message(last'.text, ArgValue(heap, last'.image_urls))
             /\ \A i \in 1..Len(history) : history'[i] = history[i]]_vars
    /\ [](\A i, j \in 1..Len(history) :
              (/\ history[i].text = history[j].text
               /\ Bind(history[i].image_urls, None)
                      = Bind(history[j].image_urls, None)) =>
                  history[i].result = history[j].result)

\* Two calls with the same list of two URLs and the same text, and another
\* call between them.
SameCallTwiceReached ==
    /\ Len(history) = 3
    /\ history[1].image_urls =
           Arg(Some(<<"https://a/1.jpg", "https://a/2.jpg">>))
    /\ history[3].image_urls = history[1].image_urls
    /\ history[3].text = history[1].text
    /\ history[2].text # history[1].text
    /\ history[3].result = history[1].result
    /\ Cardinality(CallerLists(heap)) = 1

=============================================================================
